---- MODULE Spec2Model ----
(***************************************************************************)
(* A model of the vram-supply agent runtime:                               *)
(*   - the presence state machine        (src/src/presence.rs)             *)
(*   - the serve run and its loops       (src/src/main.rs, run_serve)      *)
(*   - the serialized credential refresh (src/src/auth/mod.rs)             *)
(* Option<T> values are modelled as sets: None is {} and Some(x) is {x}.   *)
(***************************************************************************)
EXTENDS Integers, Sequences, FiniteSets, TLC

\* ------------------------------------------------------------------ bounds

\* Largest request count a caller of update_active_requests reports.
MaxActive == 3

\* ---------------------------------------------------- presence.rs: types

None == {}

Some(x) == {x}

\* enum AgentPresenceStatus
AgentPresenceStatus ==
    {"Unavailable", "Idle", "LoadingModel", "Ready", "Serving", "Degraded", "Error"}

\* The table of the doc comment on can_transition_to, as (source, target) pairs.
TransitionTable ==
    ({"Idle"} \X {"LoadingModel", "Unavailable", "Error"})
    \cup ({"LoadingModel"} \X {"Ready", "Error", "Unavailable"})
    \cup ({"Ready"} \X {"Serving", "LoadingModel", "Degraded", "Error", "Unavailable"})
    \cup ({"Serving"} \X {"Ready", "Degraded", "Error", "Unavailable"})
    \cup ({"Degraded"} \X {"Ready", "LoadingModel", "Error", "Unavailable"})
    \cup ({"Error"} \X {"LoadingModel", "Unavailable"})

\* A slip in the match: the Unavailable arm accepts what the Idle arm accepts.
can_transition_to_loose(self, target) ==
    CASE self \in {"Idle", "Unavailable"} -> target \in {"LoadingModel", "Unavailable", "Error"}
      [] self = "LoadingModel" -> target \in {"Ready", "Error", "Unavailable"}
      [] self = "Ready" ->
            target \in {"Serving", "LoadingModel", "Degraded", "Error", "Unavailable"}
      [] self = "Serving" -> target \in {"Ready", "Degraded", "Error", "Unavailable"}
      [] self = "Degraded" -> target \in {"Ready", "LoadingModel", "Error", "Unavailable"}
      [] self = "Error" -> target \in {"LoadingModel", "Unavailable"}
      [] OTHER -> FALSE

\* AgentPresenceStatus::can_transition_to: the matches! arms, one per source.
can_transition_to(self, target) ==
    CASE self = "Idle" -> target \in {"LoadingModel", "Unavailable", "Error"}
      [] self = "LoadingModel" -> target \in {"Ready", "Error", "Unavailable"}
      [] self = "Ready" ->
            target \in {"Serving", "LoadingModel", "Degraded", "Error", "Unavailable"}
      [] self = "Serving" -> target \in {"Ready", "Degraded", "Error", "Unavailable"}
      [] self = "Degraded" -> target \in {"Ready", "LoadingModel", "Error", "Unavailable"}
      [] self = "Error" -> target \in {"LoadingModel", "Unavailable"}
      [] OTHER -> FALSE

\* AgentPresenceState::new
NewPresenceState(status, current_model) ==
    [status |-> status,
     current_model |-> current_model,
     loading_progress_pct |-> None,
     active_requests |-> 0,
     error_code |-> None,
     error_message |-> None]

\* Inputs of the presence operations.
ModelName == "model"

ErrorCodes == {"code_a", "code_b"}

ErrorMessages == {"msg_a", "msg_b"}

RequestCounts == 0..MaxActive

VARIABLES
    presence_state,   \* the AgentPresenceState behind the Arc<Mutex<..>>
    sent,             \* the snapshot last handed to the transport ({} before any)
    last              \* the last PresenceHandle call: its inputs, prior state, result

pvars == <<presence_state, sent, last>>

VARIABLES
    creds,          \* the credentials file: None or Some(Credentials)
    now,            \* unix_now()
    refresh_lock,   \* REFRESH_LOCK: None or Some(the caller holding the guard)
    cpc,            \* per caller: "idle", "waiting", "exchange", "ok", "err"
    cret,           \* per caller: the Credentials returned (Some) or None
    exlog,          \* every refresh-token exchange sent, in order, with its outcome
    overlapped,     \* no call was issued after another call had returned
    in_window       \* every call was issued with the stored token in the refresh window

avars == <<creds, now, refresh_lock, cpc, cret, exlog, overlapped, in_window>>

VARIABLES
    pc_main,        \* where run_serve is
    msend,          \* run_serve's send_presence_snapshot: stage and snapshot read
    token,          \* the shared Arc<Mutex<String>> access token
    llama,          \* the LlamaServer: child handle state and restart_backoff
    pc_pub,         \* the presence loop task
    psend,          \* the presence loop's publish: token and snapshot read
    pc_hb,          \* the heartbeat task
    hb_count,       \* heartbeat iterations begun
    pc_mon,         \* the health monitor task
    shutdown_log,   \* what happened since Ctrl-C: publishes, deregistration, abort, kill
    mon_at_abort,   \* where the health monitor was when monitor_handle.abort() hit it
    hb_last,        \* the heartbeat iteration under way or last run: refresh, ping, token sent
    mon_query       \* how the monitor's last active_requests() call ended

svars == <<pc_main, msend, token, llama, pc_pub, psend, pc_hb, hb_count, pc_mon,
           shutdown_log, mon_at_abort, hb_last, mon_query>>

VARIABLES
    orphans,          \* live processes this LlamaServer spawned and no longer holds
    failed_restarts,  \* restart_with_backoff calls that failed since the backoff was initial
    sup_last,         \* the last LlamaServer call: its name, outcome and prior state
    sup_prev,         \* the name of the call before it
    signals,          \* what the last call sent to the process it held, in order
    slept             \* the backoff delay the last call slept, 0 when it slept none

lvars == <<orphans, failed_restarts, sup_last, sup_prev, signals, slept>>

VARIABLES
    state_lock,       \* the Mutex around AgentPresenceState: None or Some(the task holding it)
    tpc,              \* per task using a PresenceHandle: where it is and in which call
    tcalls,           \* per task: calls begun
    token_lock        \* the Mutex around the token cell: None or Some(the task holding it)

kvars == <<state_lock, tpc, tcalls, token_lock>>

VARIABLES
    probe,            \* the last HTTP probe of the subprocess: what it met and what it returned
    wfh               \* wait_for_healthy: where its loop is, the time since it began, its result

qvars == <<probe, wfh>>

\* What a presence operation leaves alone, and what a credential operation does.
not_pvars == <<avars, svars, lvars, kvars, qvars>>

not_avars == <<pvars, svars, lvars, kvars, qvars>>

vars == <<pvars, avars, svars, lvars, kvars, qvars>>

NoCall(op) ==
    [op |-> op, target |-> "Idle", n |-> 0, code |-> None, message |-> None,
     pre |-> NewPresenceState("Idle", Some(ModelName)), result |-> "Ok", delivered |-> TRUE]

\* PresenceHandle::new
InitPresence ==
    /\ presence_state = NewPresenceState("Idle", Some(ModelName))
    /\ sent = None
    /\ last = NoCall("new")

\* transition() written like the blocks of run_serve: the request count is zeroed.
TransitionApplyZeroingRequests(s, status) ==
    [s EXCEPT !.status = status,
              !.loading_progress_pct = None,
              !.active_requests = 0,
              !.error_code = None,
              !.error_message = None]

\* transition() that forgot to clear the error fields.
TransitionApplyKeepingError(s, status) ==
    [s EXCEPT !.status = status,
              !.loading_progress_pct = None]

\* The state change of transition() once the table allows it.
TransitionApply(s, status) ==
    [s EXCEPT !.status = status,
              !.loading_progress_pct = None,
              !.error_code = None,
              !.error_message = None]

\* transition() ending in `self.publish().await?` with a publish() that returns
\* its failure.
TransitionPropagatingPublish(status) ==
    \E delivered \in BOOLEAN :
        IF ~can_transition_to(presence_state.status, status)
        THEN /\ last' = [NoCall("transition") EXCEPT !.target = status,
                            !.pre = presence_state, !.result = "InvalidTransition",
                            !.delivered = FALSE]
             /\ delivered = FALSE
             /\ UNCHANGED <<presence_state, sent>>
             /\ UNCHANGED not_pvars
        ELSE /\ presence_state' = TransitionApply(presence_state, status)
             /\ sent' = Some(presence_state')
             /\ last' = [NoCall("transition") EXCEPT !.target = status,
                            !.pre = presence_state, !.delivered = delivered,
                            !.result = IF delivered THEN "Ok" ELSE "PublishFailed"]
             /\ UNCHANGED not_pvars

\* PresenceHandle::transition, with the publish() that ends it.  A refused call
\* bails before the state is touched and before publish().
Transition(status) ==
    \E delivered \in BOOLEAN :
        IF ~can_transition_to(presence_state.status, status)
        THEN /\ last' = [NoCall("transition") EXCEPT !.target = status,
                            !.pre = presence_state, !.result = "InvalidTransition",
                            !.delivered = FALSE]
             /\ delivered = FALSE
             /\ UNCHANGED <<presence_state, sent>>
             /\ UNCHANGED not_pvars
        ELSE /\ presence_state' = TransitionApply(presence_state, status)
             /\ sent' = Some(presence_state')
             /\ last' = [NoCall("transition") EXCEPT !.target = status,
                            !.pre = presence_state, !.delivered = delivered]
             /\ UNCHANGED not_pvars

\* report_error that also drops the request count.
ReportErrorApplyZeroing(s, code, msg) ==
    [s EXCEPT !.status = "Error",
              !.active_requests = 0,
              !.error_code = Some(code),
              !.error_message = Some(msg)]

\* The state change of report_error().
ReportErrorApply(s, code, msg) ==
    [s EXCEPT !.status = "Error",
              !.error_code = Some(code),
              !.error_message = Some(msg)]

\* PresenceHandle::report_error, with its publish().
ReportError(code, msg) ==
    \E delivered \in BOOLEAN :
        /\ presence_state' = ReportErrorApply(presence_state, code, msg)
        /\ sent' = Some(presence_state')
        /\ last' = [NoCall("report_error") EXCEPT !.code = Some(code),
                        !.message = Some(msg), !.pre = presence_state,
                        !.delivered = delivered]
        /\ UNCHANGED not_pvars

\* report_degraded that keeps the request count.
ReportDegradedApplyKeeping(s, code, msg) ==
    [s EXCEPT !.status = "Degraded",
              !.error_code = Some(code),
              !.error_message = Some(msg)]

\* The state change of report_degraded().
ReportDegradedApply(s, code, msg) ==
    [s EXCEPT !.status = "Degraded",
              !.active_requests = 0,
              !.error_code = Some(code),
              !.error_message = Some(msg)]

\* PresenceHandle::report_degraded, with its publish().
ReportDegraded(code, msg) ==
    \E delivered \in BOOLEAN :
        /\ presence_state' = ReportDegradedApply(presence_state, code, msg)
        /\ sent' = Some(presence_state')
        /\ last' = [NoCall("report_degraded") EXCEPT !.code = Some(code),
                        !.message = Some(msg), !.pre = presence_state,
                        !.delivered = delivered]
        /\ UNCHANGED not_pvars

\* update_active_requests whose zero branch forgot Serving.
UpdateActiveRequestsApplyNoServing(s, n) ==
    [s EXCEPT !.active_requests = n,
              !.status = IF n > 0 THEN "Serving"
                         ELSE IF s.status \in {"Ready", "Idle", "LoadingModel"}
                              THEN "Ready"
                              ELSE s.status]

\* The state change of update_active_requests(): the count, then the status.
UpdateActiveRequestsApply(s, n) ==
    [s EXCEPT !.active_requests = n,
              !.status = IF n > 0 THEN "Serving"
                         ELSE IF s.status \in {"Ready", "Serving", "Idle", "LoadingModel"}
                              THEN "Ready"
                              ELSE s.status]

\* PresenceHandle::update_active_requests, with its publish().
UpdateActiveRequests(n) ==
    \E delivered \in BOOLEAN :
        /\ presence_state' = UpdateActiveRequestsApply(presence_state, n)
        /\ sent' = Some(presence_state')
        /\ last' = [NoCall("update_active_requests") EXCEPT !.n = n,
                        !.pre = presence_state, !.delivered = delivered]
        /\ UNCHANGED not_pvars

\* Any sequence of calls on one PresenceHandle.
NextPresence ==
    \/ \E status \in AgentPresenceStatus : Transition(status)
    \/ \E code \in ErrorCodes, msg \in ErrorMessages : ReportError(code, msg)
    \/ \E code \in ErrorCodes, msg \in ErrorMessages : ReportDegraded(code, msg)
    \/ \E n \in RequestCounts : UpdateActiveRequests(n)

\* ------------------------------------- presence.rs: the lock and the send

\* Tasks sharing one PresenceHandle, and the calls each makes.
NumTasks == 2

MaxCalls == 1

Tasks == 1..NumTasks

\* The calls a task makes, with their arguments.
TaskRequests ==
    [op : {"publish"}, target : {"Idle"}, n : {0}]
    \cup [op : {"transition"}, target : {"LoadingModel", "Ready"}, n : {0}]
    \cup [op : {"report_error", "report_degraded"}, target : {"Idle"}, n : {0}]
    \cup [op : {"update_active_requests"}, target : {"Idle"}, n : {0, 1}]

IdleTask == [at |-> "idle", op |-> "publish", target |-> "Idle", n |-> 0]

\* What every step of these tasks leaves alone.
not_kvars == <<sent, last, avars, svars, lvars, qvars>>

\* No task has called the PresenceHandle yet.
InitTasks ==
    /\ state_lock = None
    /\ tpc = [t \in Tasks |-> IdleTask]
    /\ tcalls = [t \in Tasks |-> 0]
    /\ token_lock = None

\* The state a mutating call writes while it holds the lock.
Mutated(s, req) ==
    CASE req.op = "transition" -> TransitionApply(s, req.target)
      [] req.op = "report_error" -> ReportErrorApply(s, "code_a", "msg_a")
      [] req.op = "report_degraded" -> ReportDegradedApply(s, "code_a", "msg_a")
      [] req.op = "update_active_requests" -> UpdateActiveRequestsApply(s, req.n)
      [] OTHER -> s

\* publish() with the guard of its snapshot bound to a local that lives to the
\* end of the function.
SnapshotGuardKept(t) == Some(t)

\* publish(), `self.state.lock().await.clone()`: the guard is a temporary and
\* is dropped at the end of the statement.
SnapshotGuard(t) == None

\* The token read with its guard bound to a local that lives to the end of the
\* function.
TokenGuardKept(t) == Some(t)

\* `token.lock().await.clone()`: the guard is a temporary and is dropped at the
\* end of the statement.
TokenGuard(t) == None

\* A task calls the handle: publish() starts at the token, the others at the
\* lock; a heartbeat iteration starts at the write of the token cell.
TaskCall(t, req) ==
    /\ tpc[t].at = "idle"
    /\ tcalls[t] < MaxCalls
    /\ tcalls' = [tcalls EXCEPT ![t] = @ + 1]
    /\ tpc' = [tpc EXCEPT ![t] = [at |-> CASE req.op = "publish" -> "token"
                                          [] req.op = "heartbeat" -> "cell"
                                          [] OTHER -> "lock",
                                  op |-> req.op, target |-> req.target, n |-> req.n]]
    /\ UNCHANGED <<presence_state, state_lock, token_lock>>
    /\ UNCHANGED not_kvars

\* self.state.lock().await completes.
TaskLock(t) ==
    /\ tpc[t].at = "lock"
    /\ state_lock = None
    /\ state_lock' = Some(t)
    /\ tpc' = [tpc EXCEPT ![t].at = "mutate"]
    /\ UNCHANGED <<presence_state, tcalls, token_lock>>
    /\ UNCHANGED not_kvars

\* The block under the guard, to the point where the guard is dropped: a
\* refused transition bails, the others write the state and go on to publish().
TaskMutate(t) ==
    /\ tpc[t].at = "mutate"
    /\ state_lock' = None
    /\ IF tpc[t].op = "transition" /\ ~can_transition_to(presence_state.status, tpc[t].target)
       THEN /\ tpc' = [tpc EXCEPT ![t] = IdleTask]
            /\ UNCHANGED presence_state
       ELSE /\ tpc' = [tpc EXCEPT ![t].at = "token"]
            /\ presence_state' = Mutated(presence_state, tpc[t])
    /\ UNCHANGED <<tcalls, token_lock>>
    /\ UNCHANGED not_kvars

\* publish(): the token is cloned.
TaskToken(t) ==
    /\ tpc[t].at = "token"
    /\ token_lock = None
    /\ token_lock' = TokenGuard(t)
    /\ tpc' = [tpc EXCEPT ![t].at = IF tpc[t].op = "heartbeat" THEN "wire" ELSE "snapshot"]
    /\ UNCHANGED <<presence_state, state_lock, tcalls>>
    /\ UNCHANGED not_kvars

\* publish(): the state is cloned under the lock and the request is sent.
TaskSnapshot(t) ==
    /\ tpc[t].at = "snapshot"
    /\ state_lock = None
    /\ state_lock' = SnapshotGuard(t)
    /\ tpc' = [tpc EXCEPT ![t].at = "wire"]
    /\ UNCHANGED <<presence_state, tcalls, token_lock>>
    /\ UNCHANGED not_kvars

\* publish(): the request is answered or fails, and the call returns.
TaskWire(t) ==
    /\ tpc[t].at = "wire"
    /\ tpc' = [tpc EXCEPT ![t] = IdleTask]
    /\ state_lock' = IF state_lock = Some(t) THEN None ELSE state_lock
    /\ token_lock' = IF token_lock = Some(t) THEN None ELSE token_lock
    /\ UNCHANGED <<presence_state, tcalls>>
    /\ UNCHANGED not_kvars

\* The heartbeat task, Ok arm of the refresh: `heartbeat_token.lock().await`.
TaskCellLock(t) ==
    /\ tpc[t].at = "cell"
    /\ token_lock = None
    /\ token_lock' = Some(t)
    /\ tpc' = [tpc EXCEPT ![t].at = "cell_write"]
    /\ UNCHANGED <<presence_state, state_lock, tcalls>>
    /\ UNCHANGED not_kvars

\* The heartbeat task: the cell is written and the guard dropped at the end of
\* the arm; the token is then read for the ping.
TaskCellWrite(t) ==
    /\ tpc[t].at = "cell_write"
    /\ token_lock' = None
    /\ tpc' = [tpc EXCEPT ![t].at = "token"]
    /\ UNCHANGED <<presence_state, state_lock, tcalls>>
    /\ UNCHANGED not_kvars

\* The paths of run_serve that take the two locks: the publish of a snapshot,
\* a heartbeat iteration, the monitor's writes, the blocks of startup and shutdown.
LockRequests ==
    [op : {"publish", "heartbeat", "report_degraded"}, target : {"Idle"}, n : {0}]
    \cup [op : {"transition"}, target : {"LoadingModel"}, n : {0}]
    \cup [op : {"update_active_requests"}, target : {"Idle"}, n : {1}]

\* Every step of a task but the call that starts it.
TaskSteps ==
    \/ \E t \in Tasks : TaskLock(t)
    \/ \E t \in Tasks : TaskMutate(t)
    \/ \E t \in Tasks : TaskCellLock(t)
    \/ \E t \in Tasks : TaskCellWrite(t)
    \/ \E t \in Tasks : TaskToken(t)
    \/ \E t \in Tasks : TaskSnapshot(t)
    \/ \E t \in Tasks : TaskWire(t)

NextLocks ==
    \/ \E t \in Tasks, req \in LockRequests : TaskCall(t, req)
    \/ TaskSteps

\* Tasks calling one PresenceHandle side by side.
NextTasks ==
    \/ \E t \in Tasks, req \in TaskRequests : TaskCall(t, req)
    \/ \E t \in Tasks : TaskLock(t)
    \/ \E t \in Tasks : TaskMutate(t)
    \/ \E t \in Tasks : TaskToken(t)
    \/ \E t \in Tasks : TaskSnapshot(t)
    \/ \E t \in Tasks : TaskWire(t)

\* ------------------------------------------------ auth/mod.rs: refresh

\* Number of tasks calling load_valid_credentials.
NumCallers == 3

\* Seconds the clock advances in one step, and how many such steps are taken.
ClockStep == 200

MaxTicks == 2

\* const TOKEN_REFRESH_BUFFER_SECS
TOKEN_REFRESH_BUFFER_SECS == 300

Callers == 1..NumCallers

\* TokenResponse.expires_in values the platform may answer with.
ExpiresInValues == {300, 3600}

\* expires_at of the stored credentials when the run begins (the clock is at 0).
InitialExpiresAt == {100, 500}

\* struct Credentials; tokens are numbered in the order the platform issues them.
Credentials(access_token, refresh_token, expires_at) ==
    [access_token |-> access_token,
     refresh_token |-> refresh_token,
     expires_at |-> expires_at]

\* The state in which the callers of load_valid_credentials start.
InitAuth ==
    /\ creds \in {None} \cup {Some(Credentials(0, 0, e)) : e \in InitialExpiresAt}
    /\ now = 0
    /\ refresh_lock = None
    /\ cpc = [c \in Callers |-> "idle"]
    /\ cret = [c \in Callers |-> None]
    /\ exlog = <<>>
    /\ overlapped = TRUE
    /\ in_window = TRUE

\* load_valid_credentials: the expiry test.
NeedsRefresh(c, t) == c.expires_at <= t + TOKEN_REFRESH_BUFFER_SECS

\* The lock, granted although another caller holds it.
LockAvailableUnguarded(lock) == lock = lock

\* refresh_lock().lock().await completes only when no guard is out.
LockAvailable(lock) == lock = None

\* A task calls load_valid_credentials and queues on the refresh lock.
AuthCall(c) ==
    /\ cpc[c] = "idle"
    /\ cpc' = [cpc EXCEPT ![c] = "waiting"]
    /\ cret' = [cret EXCEPT ![c] = None]
    /\ overlapped' = (overlapped /\ \A d \in Callers : cpc[d] \notin {"ok", "err"})
    /\ in_window' = (in_window /\ \E stored \in creds :
                                      stored.expires_at <= now + TOKEN_REFRESH_BUFFER_SECS)
    /\ UNCHANGED <<creds, now, refresh_lock, exlog>>
    /\ UNCHANGED not_avars

\* load_valid_credentials up to its first network await: take the guard, read
\* the file, test the expiry.  A missing file and a fresh token return at once
\* and drop the guard; otherwise the guard is kept across the exchange.
AuthEnter(c) ==
    /\ cpc[c] = "waiting"
    /\ LockAvailable(refresh_lock)
    /\ IF creds = None
       THEN /\ cpc' = [cpc EXCEPT ![c] = "err"]
            /\ UNCHANGED <<cret, refresh_lock>>
       ELSE \E stored \in creds :
              IF NeedsRefresh(stored, now)
              THEN /\ cpc' = [cpc EXCEPT ![c] = "exchange"]
                   /\ refresh_lock' = Some(c)
                   /\ UNCHANGED cret
              ELSE /\ cpc' = [cpc EXCEPT ![c] = "ok"]
                   /\ cret' = [cret EXCEPT ![c] = Some(stored)]
                   /\ UNCHANGED refresh_lock
    /\ UNCHANGED <<creds, now, exlog, overlapped, in_window>>
    /\ UNCHANGED not_avars

\* refresh_token: the exchange fails (transport error, non-success status,
\* unparsable body, or the file cannot be saved); nothing is stored.
AuthExchangeFails(c) ==
    /\ cpc[c] = "exchange"
    /\ exlog' = Append(exlog, [by |-> c, ok |-> FALSE, expires_at |-> 0, token |-> 0])
    /\ cpc' = [cpc EXCEPT ![c] = "err"]
    /\ refresh_lock' = None
    /\ UNCHANGED <<creds, now, cret, overlapped, in_window>>
    /\ UNCHANGED not_avars

\* refresh_token: the exchange succeeds; the new credentials are saved and returned.
AuthExchangeSucceeds(c, expires_in) ==
    /\ cpc[c] = "exchange"
    /\ LET issued == Len(exlog) + 1
           fresh == Credentials(issued, issued, now + expires_in)
       IN /\ creds' = Some(fresh)
          /\ cret' = [cret EXCEPT ![c] = Some(fresh)]
          /\ exlog' = Append(exlog, [by |-> c, ok |-> TRUE,
                                     expires_at |-> fresh.expires_at, token |-> issued])
    /\ cpc' = [cpc EXCEPT ![c] = "ok"]
    /\ refresh_lock' = None
    /\ UNCHANGED <<now, overlapped, in_window>>
    /\ UNCHANGED not_avars

\* Time passes.
ClockTick ==
    /\ now < MaxTicks * ClockStep
    /\ now' = now + ClockStep
    /\ UNCHANGED <<creds, refresh_lock, cpc, cret, exlog, overlapped, in_window>>
    /\ UNCHANGED not_avars

\* NumCallers tasks, each calling load_valid_credentials once.
NextAuth ==
    \/ \E c \in Callers : AuthCall(c)
    \/ \E c \in Callers : AuthEnter(c)
    \/ \E c \in Callers : AuthExchangeFails(c)
    \/ \E c \in Callers, expires_in \in ExpiresInValues : AuthExchangeSucceeds(c, expires_in)
    \/ ClockTick

\* ---------------------------------------- backend/llama_server.rs: supervisor

\* const INITIAL_RESTART_BACKOFF, MAX_RESTART_BACKOFF (seconds)
INITIAL_RESTART_BACKOFF == 1

MAX_RESTART_BACKOFF == 60

Min(a, b) == IF a < b THEN a ELSE b

\* LlamaServer::new: no child, the initial backoff.
NewLlamaServer == [child |-> "none", restart_backoff |-> INITIAL_RESTART_BACKOFF]

\* How a start() can end.
StartOutcomes == {"spawn_failed", "health_timeout", "probe_error", "ok"}

\* start() that resets the backoff as soon as the process is spawned.
start_resetting_early(l, outcome) ==
    CASE outcome = "spawn_failed" -> l
      [] OTHER -> [l EXCEPT !.child = "running",
                            !.restart_backoff = INITIAL_RESTART_BACKOFF]

\* start() that takes the held handle out before it spawns.
start_taking_handle(l, outcome) ==
    CASE outcome = "spawn_failed" -> [l EXCEPT !.child = "none"]
      [] outcome \in {"health_timeout", "probe_error"} -> [l EXCEPT !.child = "running"]
      [] OTHER -> [l EXCEPT !.child = "running",
                            !.restart_backoff = INITIAL_RESTART_BACKOFF]

\* LlamaServer::start: a failed spawn returns before the handle is stored; a
\* health timeout, and a health probe that returned an error, return with the
\* new child held and the backoff as it was.
start(l, outcome) ==
    CASE outcome = "spawn_failed" -> l
      [] outcome \in {"health_timeout", "probe_error"} -> [l EXCEPT !.child = "running"]
      [] OTHER -> [l EXCEPT !.child = "running",
                            !.restart_backoff = INITIAL_RESTART_BACKOFF]

\* stop() that also doubles the backoff, as restart_with_backoff does.
stop_doubling_backoff(l) ==
    [l EXCEPT !.child = "none",
              !.restart_backoff = Min(l.restart_backoff * 2, MAX_RESTART_BACKOFF)]

\* LlamaServer::stop: the handle is cleared whatever wait() and kill() gave.
stop(l) == [l EXCEPT !.child = "none"]

\* How the wait of stop() on the held Child can end: the process exits within
\* GRACEFUL_SHUTDOWN_TIMEOUT, wait() returns an error, or the timeout elapses.
\* A process that has exited already is not waited for.
StopWaits(l) ==
    CASE l.child = "running" -> {"exited", "wait_error", "grace_elapsed"}
      [] l.child = "exited" -> {"exited", "wait_error"}
      [] OTHER -> {"no_child"}

\* stop() that kills without waiting for the grace period to end.
stop_signals_killing_always(l, wait, has_pid) ==
    IF l.child = "none" THEN <<>>
    ELSE (IF has_pid THEN <<"SIGTERM">> ELSE <<>>) \o <<"SIGKILL">>

\* LlamaServer::stop, what is sent to the process: SIGTERM when the Child still
\* has a pid, then SIGKILL in the timeout arm alone.
stop_signals(l, wait, has_pid) ==
    IF l.child = "none" THEN <<>>
    ELSE (IF has_pid THEN <<"SIGTERM">> ELSE <<>>)
         \o (IF wait = "grace_elapsed" THEN <<"SIGKILL">> ELSE <<>>)

\* child.id(): Some for a process that has not been reaped, either for one that
\* exited, depending on whether a try_wait() has seen the exit.
HasPid(l) == IF l.child = "running" THEN {TRUE} ELSE {TRUE, FALSE}

\* A LlamaServer without a Drop: the Child it holds is dropped as it is.
drop_llama_leaving_child(l) == l

\* impl Drop for LlamaServer: a held child is killed and reaped.
drop_llama(l) == [l EXCEPT !.child = "none"]

\* LlamaServer::is_running
is_running(l) == l.child = "running"

\* restart_with_backoff() that doubles before it sleeps.
restart_delay_doubled(l) == Min(l.restart_backoff * 2, MAX_RESTART_BACKOFF)

\* restart_with_backoff, `tokio::time::sleep(self.restart_backoff)`: the delay
\* is read before the doubling.
restart_delay(l) == l.restart_backoff

\* restart_with_backoff() that doubles without the ceiling.
restart_with_backoff_uncapped(l, outcome) ==
    start(stop([l EXCEPT !.restart_backoff = l.restart_backoff * 2]), outcome)

\* LlamaServer::restart_with_backoff: sleep, double up to the ceiling, stop, start.
restart_with_backoff(l, outcome) ==
    start(stop([l EXCEPT !.restart_backoff =
                    Min(l.restart_backoff * 2, MAX_RESTART_BACKOFF)]), outcome)

\* Consecutive failed restarts the model follows; the ceiling is met at the sixth.
MaxRestarts == 7

\* Processes left without a handle that the model follows.
MaxOrphans == 2

\* What no call of a LlamaServer touches.
not_llama == <<pvars, avars, kvars, qvars, pc_main, msend, token, pc_pub, psend, pc_hb, hb_count,
               pc_mon, shutdown_log, mon_at_abort, hb_last, mon_query>>

SupCall(op, outcome, pre, result) ==
    [op |-> op, outcome |-> outcome, pre |-> pre, result |-> result]

\* A LlamaServer right after new(), no call made yet.
InitSupervisor ==
    /\ orphans = 0
    /\ failed_restarts = 0
    /\ sup_last = SupCall("new", "ok", NewLlamaServer, "Ok")
    /\ sup_prev = "new"
    /\ signals = <<>>
    /\ slept = 0

\* LlamaServer::start, `self.child = Some(child)`: a Child that was held is
\* dropped, and a dropped tokio Child is not killed, so a process that was
\* still running goes on running without a handle.
Orphaned(l, outcome) ==
    IF outcome # "spawn_failed" /\ l.child = "running" THEN 1 ELSE 0

\* Processes spawned by the LlamaServer that are alive.
LiveProcesses == orphans + (IF llama.child = "running" THEN 1 ELSE 0)

\* A caller calls start().
SupStart(outcome) ==
    /\ orphans + Orphaned(llama, outcome) <= MaxOrphans
    /\ llama' = start(llama, outcome)
    /\ orphans' = orphans + Orphaned(llama, outcome)
    /\ failed_restarts' = IF outcome = "ok" THEN 0 ELSE failed_restarts
    /\ sup_last' = SupCall("start", outcome, llama, IF outcome = "ok" THEN "Ok" ELSE "Err")
    /\ sup_prev' = sup_last.op
    /\ signals' = <<>>
    /\ slept' = 0
    /\ UNCHANGED not_llama

\* A caller calls stop().
SupStop ==
    /\ llama' = stop(llama)
    /\ \E wait \in StopWaits(llama), has_pid \in HasPid(llama) :
         /\ sup_last' = SupCall("stop", wait, llama, "Ok")
         /\ signals' = stop_signals(llama, wait, has_pid)
    /\ sup_prev' = sup_last.op
    /\ UNCHANGED <<orphans, failed_restarts>>
    /\ slept' = 0
    /\ UNCHANGED not_llama

\* A caller calls is_running().
SupIsRunning ==
    /\ sup_last' = SupCall("is_running", "ok", llama, IF is_running(llama) THEN "true" ELSE "false")
    /\ sup_prev' = sup_last.op
    /\ signals' = <<>>
    /\ UNCHANGED <<llama, orphans, failed_restarts>>
    /\ slept' = 0
    /\ UNCHANGED not_llama

\* A caller calls restart_with_backoff().
SupRestart(outcome) ==
    /\ failed_restarts < MaxRestarts
    /\ llama' = restart_with_backoff(llama, outcome)
    /\ failed_restarts' = IF outcome = "ok" THEN 0 ELSE failed_restarts + 1
    /\ sup_last' = SupCall("restart_with_backoff", outcome, llama,
                           IF outcome = "ok" THEN "Ok" ELSE "Err")
    /\ sup_prev' = sup_last.op
    /\ \E wait \in StopWaits(llama), has_pid \in HasPid(llama) :
         signals' = stop_signals(llama, wait, has_pid)
    /\ UNCHANGED orphans
    /\ slept' = restart_delay(llama)
    /\ UNCHANGED not_llama

\* The process that is held exits on its own.
SupChildExits ==
    /\ llama.child = "running"
    /\ llama' = [llama EXCEPT !.child = "exited"]
    /\ sup_last' = SupCall("child_exit", "ok", llama, "Ok")
    /\ UNCHANGED <<orphans, failed_restarts, sup_prev, signals, slept>>
    /\ UNCHANGED not_llama

\* One LlamaServer under any sequence of calls.
NextSupervisor ==
    \/ \E outcome \in StartOutcomes : SupStart(outcome)
    \/ SupStop
    \/ SupIsRunning
    \/ \E outcome \in StartOutcomes : SupRestart(outcome)
    \/ SupChildExits

\* ------------------------------------- backend/llama_server.rs: the probes

\* Entries of the slot list the probe is tried on.
MaxSlotEntries == 2

\* A JSON value as serde_json holds it, for the two fields a slot entry is asked
\* for: the kind of the value and the value itself (booleans as 0 and 1).  An
\* integer above i64::MAX is a kind of its own, as serde_json keeps it as u64.
IsProcessingValues ==
    {[kind |-> "absent", v |-> 0],
     [kind |-> "bool", v |-> 0], [kind |-> "bool", v |-> 1],
     [kind |-> "int", v |-> -1], [kind |-> "int", v |-> 0], [kind |-> "int", v |-> 1],
     [kind |-> "int_over_i64", v |-> 1],
     [kind |-> "string", v |-> 1]}

StateValues == {"absent", "not_a_string", "idle", "processing", "running", "active"}

\* An entry of the list: an object with the two fields, or a value that is no object.
SlotEntries ==
    [object : {TRUE}, is_processing : IsProcessingValues, state : StateValues]
    \cup {[object |-> FALSE, is_processing |-> [kind |-> "absent", v |-> 0], state |-> "absent"]}

SlotLists == UNION {[1..n -> SlotEntries] : n \in 0..MaxSlotEntries}

\* The body of a response: a bare list, an object with a list under "slots",
\* an object whose "slots" is no list, an object without "slots", another JSON
\* value, bytes that are not JSON, and a body whose read fails.
Bodies ==
    [shape : {"array", "object_slots"}, items : SlotLists]
    \cup [shape : {"object_slots_not_array", "object", "scalar", "not_json", "read_error"},
          items : {<<>>}]

EmptyBody == [shape |-> "object", items |-> <<>>]

HttpStatuses == {200, 204, 301, 500}

\* What send().await meets: no connection, the request timeout, or a response.
Replies ==
    [kind : {"connect_error", "timeout"}, status : {0}, body : {EmptyBody}]
    \cup [kind : {"response"}, status : HttpStatuses, body : Bodies]

HealthReplies == {r \in Replies : r.body = EmptyBody}

\* StatusCode::is_success
is_success(status) == status >= 200 /\ status <= 299

\* Value::as_bool, Value::as_i64 on the is_processing field.
as_bool(value) == IF value.kind = "bool" THEN Some(value.v = 1) ELSE None

as_i64(value) == IF value.kind = "int" THEN Some(value.v) ELSE None

\* The body as the list of slots: the bare array, else the array under "slots".
slots_of(body) ==
    IF body.shape \in {"array", "object_slots"} THEN Some(body.items) ELSE None

\* The test of the loop body on one entry.
slot_active(slot) ==
    LET is_processing == \E b \in as_bool(slot.is_processing) : b
        processing_i64 == \E i \in as_i64(slot.is_processing) : i > 0
        state == slot.state \in {"processing", "running", "active"}
    IN  slot.object /\ (is_processing \/ processing_i64 \/ state)

ProbeOk(op, build, reply, healthy, active) ==
    [op |-> op, build |-> build, reply |-> reply, ok |-> TRUE, healthy |-> healthy,
     active |-> active, error |-> "none"]

ProbeErr(op, build, reply, error) ==
    [op |-> op, build |-> build, reply |-> reply, ok |-> FALSE, healthy |-> FALSE,
     active |-> 0, error |-> error]

\* LlamaServer::health_check
health_check(build, reply) ==
    IF ~build
    THEN ProbeErr("health_check", build, reply, "client_build")
    ELSE IF reply.kind = "response"
         THEN ProbeOk("health_check", build, reply, is_success(reply.status), 0)
         ELSE ProbeOk("health_check", build, reply, FALSE, 0)

\* LlamaServer::active_requests
active_requests(build, reply) ==
    IF ~build
    THEN ProbeErr("active_requests", build, reply, "client_build")
    ELSE IF reply.kind # "response"
    THEN ProbeErr("active_requests", build, reply, "send")
    ELSE IF ~is_success(reply.status)
    THEN ProbeErr("active_requests", build, reply, "status")
    ELSE IF reply.body.shape \in {"not_json", "read_error"}
    THEN ProbeErr("active_requests", build, reply, "json")
    ELSE IF slots_of(reply.body) = None
    THEN ProbeOk("active_requests", build, reply, FALSE, 0)
    ELSE LET slots == CHOOSE l \in slots_of(reply.body) : TRUE
         IN  ProbeOk("active_requests", build, reply, FALSE,
                     Cardinality({i \in DOMAIN slots : slot_active(slots[i])}))

\* const HEALTH_STARTUP_TIMEOUT, HEALTH_CHECK_TIMEOUT, HEALTH_POLL_INTERVAL, in
\* units of the poll interval (500 ms).
HEALTH_STARTUP_TIMEOUT == 120

HEALTH_CHECK_TIMEOUT == 10

HEALTH_POLL_INTERVAL == 1

\* wait_for_healthy not running.
NoWait == [pc |-> "idle", elapsed |-> 0, result |-> "none", healthy |-> FALSE]

\* No probe made yet.
InitProbe ==
    /\ probe = ProbeOk("none", TRUE, [kind |-> "connect_error", status |-> 0, body |-> EmptyBody],
                       FALSE, 0)
    /\ wfh = NoWait

not_qvars == <<pvars, avars, svars, lvars, kvars>>

\* A caller awaits health_check(); the client builds or not, the endpoint answers or not.
CallHealthCheck(build, reply) ==
    /\ probe.op = "none"
    /\ probe' = health_check(build, reply)
    /\ UNCHANGED wfh
    /\ UNCHANGED not_qvars

\* A caller awaits active_requests().
CallActiveRequests(build, reply) ==
    /\ probe.op = "none"
    /\ probe' = active_requests(build, reply)
    /\ UNCHANGED wfh
    /\ UNCHANGED not_qvars

\* The caller has taken the result.
ProbeReturned ==
    /\ probe.op # "none"
    /\ probe' = ProbeOk("none", TRUE, [kind |-> "connect_error", status |-> 0, body |-> EmptyBody],
                        FALSE, 0)
    /\ UNCHANGED wfh
    /\ UNCHANGED not_qvars

NextProbe ==
    \/ /\ probe.op = "none"
       /\ \E build \in BOOLEAN, reply \in HealthReplies : CallHealthCheck(build, reply)
    \/ /\ probe.op = "none"
       /\ \E build \in BOOLEAN, reply \in Replies : CallActiveRequests(build, reply)
    \/ ProbeReturned

\* ------------------------------ backend/llama_server.rs: wait_for_healthy

\* How long a probe that did not report healthy took: a refused connection or
\* a non-success answer comes at once or within a poll interval, a probe that
\* times out takes HEALTH_CHECK_TIMEOUT.
ProbeDurations(reply) ==
    IF reply.kind = "timeout" THEN {HEALTH_CHECK_TIMEOUT} ELSE {0, HEALTH_POLL_INTERVAL}

\* start() has spawned the child and calls wait_for_healthy(HEALTH_STARTUP_TIMEOUT).
WaitBegin ==
    /\ wfh.pc = "idle"
    /\ wfh' = [NoWait EXCEPT !.pc = "check"]
    /\ UNCHANGED probe
    /\ UNCHANGED not_qvars

\* The head of the loop: `start.elapsed() > timeout` bails.
WaitCheck ==
    /\ wfh.pc = "check"
    /\ wfh' = IF wfh.elapsed > HEALTH_STARTUP_TIMEOUT
              THEN [wfh EXCEPT !.pc = "done", !.result = "HealthTimeout"]
              ELSE [wfh EXCEPT !.pc = "probe"]
    /\ UNCHANGED probe
    /\ UNCHANGED not_qvars

\* `self.health_check().await?`: an Err is returned, true returns Ok, false
\* goes on to the sleep.
WaitProbe(build, reply) ==
    /\ wfh.pc = "probe"
    /\ LET r == health_check(build, reply)
       IN  \E d \in ProbeDurations(reply) :
             wfh' = IF ~r.ok
                    THEN [wfh EXCEPT !.pc = "done", !.result = "ProbeError"]
                    ELSE IF r.healthy
                    THEN [wfh EXCEPT !.pc = "done", !.result = "Ok", !.healthy = TRUE]
                    ELSE [wfh EXCEPT !.pc = "sleep", !.elapsed = wfh.elapsed + d]
    /\ UNCHANGED probe
    /\ UNCHANGED not_qvars

\* tokio::time::sleep(HEALTH_POLL_INTERVAL)
WaitSleep ==
    /\ wfh.pc = "sleep"
    /\ wfh' = [wfh EXCEPT !.pc = "check", !.elapsed = wfh.elapsed + HEALTH_POLL_INTERVAL]
    /\ UNCHANGED probe
    /\ UNCHANGED not_qvars

\* start() has taken the result.
WaitReturned ==
    /\ wfh.pc = "done"
    /\ wfh' = NoWait
    /\ UNCHANGED probe
    /\ UNCHANGED not_qvars

WaitLoop ==
    \/ WaitCheck
    \/ \E build \in BOOLEAN, reply \in HealthReplies : WaitProbe(build, reply)
    \/ WaitSleep

NextWait ==
    \/ WaitBegin
    \/ WaitLoop
    \/ WaitReturned

\* ------------------------------------------------------ main.rs: run_serve

\* Largest count the /slots probe of the health monitor reports.
MaxSlots == 1

\* Heartbeat iterations the model follows.
MaxBeats == 2

\* Publishes of the presence loop the model follows once Ctrl-C has arrived.
MaxLatePublishes == 1

\* The state blocks of run_serve, each written under one lock of presence_state.
SetLoadingModel(s) ==
    [s EXCEPT !.status = "LoadingModel", !.loading_progress_pct = None,
              !.active_requests = 0, !.error_code = None, !.error_message = None]

SetStartupError(s, code) ==
    [s EXCEPT !.status = "Error", !.error_code = Some(code),
              !.error_message = Some("error text")]

SetReady(s) ==
    [s EXCEPT !.status = "Ready", !.loading_progress_pct = None,
              !.active_requests = 0, !.error_code = None, !.error_message = None]

SetUnavailable(s) ==
    [s EXCEPT !.status = "Unavailable", !.active_requests = 0,
              !.loading_progress_pct = None, !.error_code = None,
              !.error_message = None]

\* The state blocks of the health monitor task.
MonitorDegraded(s) ==
    [s EXCEPT !.status = "Degraded", !.active_requests = 0,
              !.error_code = Some("llama_stopped"),
              !.error_message = Some("llama-server process stopped unexpectedly")]

\* The failed-restart branch with its Error block left out.
MonitorRestartFailedSilently(s) == s

MonitorRestartFailed(s) ==
    [s EXCEPT !.status = "Error", !.active_requests = 0,
              !.error_code = Some("llama_restart_failed"),
              !.error_message = Some("error text")]

MonitorRestarted(s) ==
    [s EXCEPT !.status = "Ready", !.active_requests = 0,
              !.error_code = None, !.error_message = None]

MonitorActive(s, active) ==
    [s EXCEPT !.active_requests = active,
              !.status = IF active > 0 THEN "Serving"
                         ELSE IF s.status \in {"Ready", "Serving", "Idle", "LoadingModel"}
                              THEN "Ready"
                              ELSE s.status]

NoSend == [stage |-> "snapshot", snapshot |-> None]

\* A heartbeat iteration at its start: the token cell as it is, no refresh
\* result yet, no ping sent yet.
NoBeat(cell) ==
    [token_before |-> cell, refresh |-> "pending", refreshed_to |-> None,
     ping |-> "pending", sent_token |-> None]

\* How the ping of an iteration can end.
PingResults == {"ok", "non_success", "transport_error"}

LogEntry(kind, by, snapshot) == [kind |-> kind, by |-> by, snapshot |-> snapshot]

\* The positions of run_serve at which send_presence_snapshot is running, and
\* where run_serve goes when it returns.
SendPcs ==
    {"send_idle", "send_loading", "send_start_error", "send_register_error",
     "send_ready", "send_unavailable"}

AfterSend(pc) ==
    CASE pc = "send_idle" -> "spawn_presence"
      [] pc = "send_loading" -> "start"
      [] pc = "send_start_error" -> "bail"
      [] pc = "send_register_error" -> "bail"
      [] pc = "send_ready" -> "spawn_loops"
      [] pc = "send_unavailable" -> "deregister"
      [] OTHER -> pc

\* Ctrl-C has been received.
ShuttingDown == pc_main \in {"set_unavailable", "send_unavailable", "deregister", "abort", "done"}

Logged(entry) == IF ShuttingDown THEN Append(shutdown_log, entry) ELSE shutdown_log

LatePublishes == Cardinality({i \in DOMAIN shutdown_log : shutdown_log[i].by = "loop"})

\* run_serve from its first line, the stored credentials in any of their states.
InitServe ==
    /\ pc_main = "auth"
    /\ msend = NoSend
    /\ token = 0
    /\ llama = NewLlamaServer
    /\ pc_pub = "unspawned"
    /\ psend = NoSend
    /\ pc_hb = "unspawned"
    /\ hb_count = 0
    /\ pc_mon = "unspawned"
    /\ shutdown_log = <<>>
    /\ mon_at_abort = "unspawned"
    /\ hb_last = NoBeat(0)
    /\ mon_query = "none"

base_frame == <<last, cpc, cret, overlapped, in_window, now, lvars, kvars, qvars>>

abort_frame == <<base_frame, hb_last, mon_query>>

\* What a step of the heartbeat task, and a step of the monitor, leave alone
\* beside the variables of run_serve listed in the step.
hb_frame == <<base_frame, mon_query, mon_at_abort>>

mon_frame == <<base_frame, hb_last, mon_at_abort>>

serve_frame == <<abort_frame, mon_at_abort>>

\* ensure_authenticated and load_or_create_identity succeed: stored credentials
\* that are not about to expire are used as they are, otherwise a refresh or a
\* login stores new ones.
MainAuthOk ==
    /\ pc_main = "auth"
    /\ \/ /\ \E stored \in creds :
               /\ ~NeedsRefresh(stored, now)
               /\ token' = stored.access_token
          /\ UNCHANGED <<creds, exlog>>
       \/ /\ \A stored \in creds : NeedsRefresh(stored, now)
          /\ \E expires_in \in ExpiresInValues :
               LET issued == Len(exlog) + 1
                   fresh == Credentials(issued, issued, now + expires_in)
               IN /\ creds' = Some(fresh)
                  /\ exlog' = Append(exlog, [by |-> 0, ok |-> TRUE,
                                     expires_at |-> fresh.expires_at, token |-> issued])
                  /\ token' = issued
    /\ pc_main' = "resolve"
    /\ UNCHANGED <<presence_state, sent, refresh_lock, msend, llama, pc_pub, psend,
                   pc_hb, hb_count, pc_mon, shutdown_log>>
    /\ UNCHANGED serve_frame

\* ensure_authenticated or load_or_create_identity fails: run_serve returns the error.
MainAuthFails ==
    /\ pc_main = "auth"
    /\ pc_main' = "failed"
    /\ UNCHANGED <<presence_state, sent, creds, exlog, refresh_lock, msend, token, llama,
                   pc_pub, psend, pc_hb, hb_count, pc_mon, shutdown_log>>
    /\ UNCHANGED serve_frame

\* The model is found and named; the presence state is created Idle.
MainResolveOk ==
    /\ pc_main = "resolve"
    /\ presence_state' = NewPresenceState("Idle", Some(ModelName))
    /\ pc_main' = "send_idle"
    /\ UNCHANGED <<sent, creds, exlog, refresh_lock, msend, token, llama,
                   pc_pub, psend, pc_hb, hb_count, pc_mon, shutdown_log>>
    /\ UNCHANGED serve_frame

\* find_model / list_local_models fails or finds nothing: run_serve returns the error.
MainResolveFails ==
    /\ pc_main = "resolve"
    /\ pc_main' = "failed"
    /\ UNCHANGED <<presence_state, sent, creds, exlog, refresh_lock, msend, token, llama,
                   pc_pub, psend, pc_hb, hb_count, pc_mon, shutdown_log>>
    /\ UNCHANGED serve_frame

\* send_presence_snapshot: the token is read, then the state is cloned.
MainSendSnapshot ==
    /\ pc_main \in SendPcs
    /\ msend.stage = "snapshot"
    /\ msend' = [msend EXCEPT !.stage = "wire", !.snapshot = Some(presence_state)]
    /\ UNCHANGED <<presence_state, sent, creds, exlog, refresh_lock, pc_main, token, llama,
                   pc_pub, psend, pc_hb, hb_count, pc_mon, shutdown_log>>
    /\ UNCHANGED serve_frame

\* send_presence_snapshot: the request is made; a failure is logged and nothing
\* else depends on it.
MainSendWire ==
    /\ pc_main \in SendPcs
    /\ msend.stage = "wire"
    /\ shutdown_log' = Logged(LogEntry("publish", "main", msend.snapshot))
    /\ msend' = NoSend
    /\ pc_main' = AfterSend(pc_main)
    /\ UNCHANGED <<presence_state, sent, creds, exlog, refresh_lock, token, llama,
                   pc_pub, psend, pc_hb, hb_count, pc_mon>>
    /\ UNCHANGED serve_frame

\* spawn_presence_loop
MainSpawnPresenceLoop ==
    /\ pc_main = "spawn_presence"
    /\ pc_pub' = "sleep"
    /\ pc_main' = "set_loading"
    /\ UNCHANGED <<presence_state, sent, creds, exlog, refresh_lock, msend, token, llama,
                   psend, pc_hb, hb_count, pc_mon, shutdown_log>>
    /\ UNCHANGED serve_frame

\* The LoadingModel block.
MainSetLoading ==
    /\ pc_main = "set_loading"
    /\ presence_state' = SetLoadingModel(presence_state)
    /\ pc_main' = "send_loading"
    /\ UNCHANGED <<sent, creds, exlog, refresh_lock, msend, token, llama,
                   pc_pub, psend, pc_hb, hb_count, pc_mon, shutdown_log>>
    /\ UNCHANGED serve_frame

\* LlamaServer::new and llama.start(): on failure the Error block.
MainStart(outcome) ==
    /\ pc_main = "start"
    /\ llama' = start(NewLlamaServer, outcome)
    /\ IF outcome = "ok"
       THEN /\ pc_main' = "register"
            /\ UNCHANGED presence_state
       ELSE /\ pc_main' = "send_start_error"
            /\ presence_state' = SetStartupError(presence_state, "llama_start_failed")
    /\ UNCHANGED <<sent, creds, exlog, refresh_lock, msend, token,
                   pc_pub, psend, pc_hb, hb_count, pc_mon, shutdown_log>>
    /\ UNCHANGED serve_frame

\* How the registration request can end.
RegisterOutcomes ==
    {"provider_register_request_failed", "provider_register_failed",
     "provider_register_response_invalid", "ok"}

\* The registration with the Ready block run before the response is looked at.
MainRegisterReadyFirst(outcome) ==
    /\ pc_main = "register"
    /\ presence_state' = SetReady(presence_state)
    /\ pc_main' = IF outcome = "ok" THEN "send_ready" ELSE "send_register_error"
    /\ UNCHANGED <<sent, creds, exlog, refresh_lock, msend, token, llama,
                   pc_pub, psend, pc_hb, hb_count, pc_mon, shutdown_log>>
    /\ UNCHANGED serve_frame

\* POST /v1/providers/register: on failure the Error block with its code, on
\* success the Ready block.
MainRegister(outcome) ==
    /\ pc_main = "register"
    /\ IF outcome = "ok"
       THEN /\ pc_main' = "send_ready"
            /\ presence_state' = SetReady(presence_state)
       ELSE /\ pc_main' = "send_register_error"
            /\ presence_state' = SetStartupError(presence_state, outcome)
    /\ UNCHANGED <<sent, creds, exlog, refresh_lock, msend, token, llama,
                   pc_pub, psend, pc_hb, hb_count, pc_mon, shutdown_log>>
    /\ UNCHANGED serve_frame

\* presence_handle.abort() and the early return: llama goes out of scope and its
\* Drop kills the child it holds.
MainBail ==
    /\ pc_main = "bail"
    /\ pc_pub' = "aborted"
    /\ psend' = NoSend
    /\ llama' = drop_llama(llama)
    /\ pc_main' = "failed"
    /\ UNCHANGED <<presence_state, sent, creds, exlog, refresh_lock, msend, token,
                   pc_hb, hb_count, pc_mon, shutdown_log>>
    /\ UNCHANGED serve_frame

\* The heartbeat task and the health monitor task are spawned; llama moves into
\* the monitor.  run_serve then waits for Ctrl-C.
MainSpawnLoops ==
    /\ pc_main = "spawn_loops"
    /\ pc_hb' = "sleep"
    /\ pc_mon' = "sleep"
    /\ pc_main' = "wait"
    /\ UNCHANGED <<presence_state, sent, creds, exlog, refresh_lock, msend, token, llama,
                   pc_pub, psend, hb_count, shutdown_log>>
    /\ UNCHANGED serve_frame

\* The llama-server process exits on its own.
ChildExits ==
    /\ llama.child = "running"
    /\ pc_main \notin {"done", "failed"}
    /\ llama' = [llama EXCEPT !.child = "exited"]
    /\ UNCHANGED <<presence_state, sent, creds, exlog, refresh_lock, pc_main, msend, token,
                   pc_pub, psend, pc_hb, hb_count, pc_mon, shutdown_log>>
    /\ UNCHANGED serve_frame

\* The presence loop: the interval fires; publish reads the token and clones
\* the state.
PubTick ==
    /\ pc_pub = "sleep"
    /\ ShuttingDown => LatePublishes < MaxLatePublishes
    /\ pc_pub' = "wire"
    /\ psend' = [psend EXCEPT !.snapshot = Some(presence_state)]
    /\ UNCHANGED <<presence_state, sent, creds, exlog, refresh_lock, pc_main, msend, token,
                   llama, pc_hb, hb_count, pc_mon, shutdown_log>>
    /\ UNCHANGED serve_frame

\* The presence loop: the request is made; a failure is logged and nothing else.
PubWire ==
    /\ pc_pub = "wire"
    /\ shutdown_log' = Logged(LogEntry("publish", "loop", psend.snapshot))
    /\ pc_pub' = "sleep"
    /\ psend' = NoSend
    /\ UNCHANGED <<presence_state, sent, creds, exlog, refresh_lock, pc_main, msend, token,
                   llama, pc_hb, hb_count, pc_mon>>
    /\ UNCHANGED serve_frame

\* The heartbeat task: the interval fires.
HeartbeatTick ==
    /\ pc_hb = "sleep"
    /\ hb_count < MaxBeats
    /\ hb_count' = hb_count + 1
    /\ pc_hb' = "refresh"
    /\ hb_last' = NoBeat(token)
    /\ UNCHANGED <<presence_state, sent, creds, exlog, refresh_lock, pc_main, msend, token,
                   llama, pc_pub, psend, pc_mon, shutdown_log>>
    /\ UNCHANGED hb_frame

\* The heartbeat task: load_valid_credentials up to the exchange.  Credentials
\* that are returned are written to the token cell; an error is only logged.
HeartbeatLoad ==
    /\ pc_hb = "refresh"
    /\ LockAvailable(refresh_lock)
    /\ IF creds = None
       THEN /\ pc_hb' = "ping"
            /\ hb_last' = [hb_last EXCEPT !.refresh = "no_credentials"]
            /\ UNCHANGED <<token, refresh_lock>>
       ELSE \E stored \in creds :
              IF NeedsRefresh(stored, now)
              THEN /\ pc_hb' = "exchange"
                   /\ refresh_lock' = Some(0)
                   /\ UNCHANGED <<token, hb_last>>
              ELSE /\ pc_hb' = "ping"
                   /\ token' = stored.access_token
                   /\ hb_last' = [hb_last EXCEPT !.refresh = "valid",
                                                 !.refreshed_to = Some(stored.access_token)]
                   /\ UNCHANGED refresh_lock
    /\ UNCHANGED <<presence_state, sent, creds, exlog, pc_main, msend,
                   llama, pc_pub, psend, hb_count, pc_mon, shutdown_log>>
    /\ UNCHANGED hb_frame

\* The heartbeat task with `?` on the refresh: a failed exchange ends the iteration.
HeartbeatExchangeFailsSkippingPing ==
    /\ pc_hb = "exchange"
    /\ exlog' = Append(exlog, [by |-> 0, ok |-> FALSE, expires_at |-> 0, token |-> 0])
    /\ refresh_lock' = None
    /\ pc_hb' = "sleep"
    /\ hb_last' = [hb_last EXCEPT !.refresh = "failed"]
    /\ UNCHANGED <<presence_state, sent, creds, pc_main, msend, token,
                   llama, pc_pub, psend, hb_count, pc_mon, shutdown_log>>
    /\ UNCHANGED hb_frame

\* The heartbeat task with a refresh that returns without dropping its guard.
HeartbeatExchangeFailsKeepingLock ==
    /\ pc_hb = "exchange"
    /\ exlog' = Append(exlog, [by |-> 0, ok |-> FALSE, expires_at |-> 0, token |-> 0])
    /\ pc_hb' = "ping"
    /\ hb_last' = [hb_last EXCEPT !.refresh = "failed"]
    /\ UNCHANGED <<presence_state, sent, creds, refresh_lock, pc_main, msend, token,
                   llama, pc_pub, psend, hb_count, pc_mon, shutdown_log>>
    /\ UNCHANGED hb_frame

\* The heartbeat task: the refresh-token exchange fails; the token cell is kept.
HeartbeatExchangeFails ==
    /\ pc_hb = "exchange"
    /\ exlog' = Append(exlog, [by |-> 0, ok |-> FALSE, expires_at |-> 0, token |-> 0])
    /\ refresh_lock' = None
    /\ pc_hb' = "ping"
    /\ hb_last' = [hb_last EXCEPT !.refresh = "failed"]
    /\ UNCHANGED <<presence_state, sent, creds, pc_main, msend, token,
                   llama, pc_pub, psend, hb_count, pc_mon, shutdown_log>>
    /\ UNCHANGED hb_frame

\* The heartbeat task: the exchange succeeds; the new token is saved and written
\* to the token cell.
HeartbeatExchangeSucceeds(expires_in) ==
    /\ pc_hb = "exchange"
    /\ LET issued == Len(exlog) + 1
           fresh == Credentials(issued, issued, now + expires_in)
       IN /\ creds' = Some(fresh)
          /\ exlog' = Append(exlog, [by |-> 0, ok |-> TRUE,
                                     expires_at |-> fresh.expires_at, token |-> issued])
          /\ token' = issued
          /\ hb_last' = [hb_last EXCEPT !.refresh = "refreshed", !.refreshed_to = Some(issued)]
    /\ refresh_lock' = None
    /\ pc_hb' = "ping"
    /\ UNCHANGED <<presence_state, sent, pc_main, msend,
                   llama, pc_pub, psend, hb_count, pc_mon, shutdown_log>>
    /\ UNCHANGED hb_frame

\* The heartbeat task with the token read before the refresh and used for the ping.
HeartbeatPingStale(result) ==
    /\ pc_hb = "ping"
    /\ hb_last' = [hb_last EXCEPT !.ping = result, !.sent_token = Some(hb_last.token_before)]
    /\ pc_hb' = "sleep"
    /\ UNCHANGED <<presence_state, sent, creds, exlog, refresh_lock, pc_main, msend, token,
                   llama, pc_pub, psend, hb_count, pc_mon, shutdown_log>>
    /\ UNCHANGED hb_frame

\* The heartbeat task: the token cell is read and the ping sent with it;
\* success, a non-success status and a transport error are each logged and the
\* loop goes on.
HeartbeatPing(result) ==
    /\ pc_hb = "ping"
    /\ hb_last' = [hb_last EXCEPT !.ping = result, !.sent_token = Some(token)]
    /\ pc_hb' = "sleep"
    /\ UNCHANGED <<presence_state, sent, creds, exlog, refresh_lock, pc_main, msend, token,
                   llama, pc_pub, psend, hb_count, pc_mon, shutdown_log>>
    /\ UNCHANGED hb_frame

\* The health monitor: the interval fires and is_running() picks the branch.
MonitorTick ==
    /\ pc_mon = "sleep"
    /\ pc_mon' = IF is_running(llama) THEN "query" ELSE "degrade"
    /\ mon_query' = "none"
    /\ UNCHANGED llama
    /\ UNCHANGED <<presence_state, sent, creds, exlog, refresh_lock, pc_main, msend, token,
                   pc_pub, psend, pc_hb, hb_count, shutdown_log>>
    /\ UNCHANGED mon_frame

\* The health monitor, child not running: the Degraded block.
MonitorDegrade ==
    /\ pc_mon = "degrade"
    /\ presence_state' = MonitorDegraded(presence_state)
    /\ pc_mon' = "restart"
    /\ UNCHANGED <<sent, creds, exlog, refresh_lock, pc_main, msend, token, llama,
                   pc_pub, psend, pc_hb, hb_count, shutdown_log>>
    /\ UNCHANGED serve_frame

\* The health monitor: restart_with_backoff returns; on failure the Error block
\* and `continue`, on success the Ready block.
MonitorRestart(outcome) ==
    /\ pc_mon = "restart"
    /\ llama' = restart_with_backoff(llama, outcome)
    /\ presence_state' = IF outcome = "ok" THEN MonitorRestarted(presence_state)
                         ELSE MonitorRestartFailed(presence_state)
    /\ pc_mon' = "sleep"
    /\ UNCHANGED <<sent, creds, exlog, refresh_lock, pc_main, msend, token,
                   pc_pub, psend, pc_hb, hb_count, shutdown_log>>
    /\ UNCHANGED serve_frame

\* The health monitor, child running: /slots answers and the count is stored.
MonitorQueryOk(active) ==
    /\ pc_mon = "query"
    /\ is_running(llama)
    /\ presence_state' = MonitorActive(presence_state, active)
    /\ pc_mon' = "sleep"
    /\ mon_query' = "ok"
    /\ UNCHANGED <<sent, creds, exlog, refresh_lock, pc_main, msend, token, llama,
                   pc_pub, psend, pc_hb, hb_count, shutdown_log>>
    /\ UNCHANGED mon_frame

\* The monitor's Err arm written like the arm of a failed restart: Error is set.
MonitorQueryFailsSettingError ==
    /\ pc_mon = "query"
    /\ pc_mon' = "sleep"
    /\ mon_query' = "failed"
    /\ presence_state' = MonitorRestartFailed(presence_state)
    /\ UNCHANGED <<sent, creds, exlog, refresh_lock, pc_main, msend, token,
                   llama, pc_pub, psend, pc_hb, hb_count, shutdown_log>>
    /\ UNCHANGED mon_frame

\* The health monitor, child running: the /slots query fails and is only logged.
MonitorQueryFails ==
    /\ pc_mon = "query"
    /\ pc_mon' = "sleep"
    /\ mon_query' = "failed"
    /\ UNCHANGED <<presence_state, sent, creds, exlog, refresh_lock, pc_main, msend, token,
                   llama, pc_pub, psend, pc_hb, hb_count, shutdown_log>>
    /\ UNCHANGED mon_frame

\* tokio::signal::ctrl_c() completes.
MainCtrlC ==
    /\ pc_main = "wait"
    /\ pc_main' = "set_unavailable"
    /\ UNCHANGED <<presence_state, sent, creds, exlog, refresh_lock, msend, token, llama,
                   pc_pub, psend, pc_hb, hb_count, pc_mon, shutdown_log>>
    /\ UNCHANGED serve_frame

\* The Unavailable block.
MainSetUnavailable ==
    /\ pc_main = "set_unavailable"
    /\ presence_state' = SetUnavailable(presence_state)
    /\ pc_main' = "send_unavailable"
    /\ UNCHANGED <<sent, creds, exlog, refresh_lock, msend, token, llama,
                   pc_pub, psend, pc_hb, hb_count, pc_mon, shutdown_log>>
    /\ UNCHANGED serve_frame

\* The deregistration with `?` on its result: a failure returns from run_serve.
MainDeregisterPropagating ==
    /\ pc_main = "deregister"
    /\ \E answered \in BOOLEAN :
         /\ shutdown_log' = Append(shutdown_log,
              LogEntry(IF answered THEN "deregister" ELSE "deregister_failed", "main", None))
         /\ pc_main' = IF answered THEN "abort" ELSE "failed"
    /\ UNCHANGED <<presence_state, sent, creds, exlog, refresh_lock, msend, token, llama,
                   pc_pub, psend, pc_hb, hb_count, pc_mon>>
    /\ UNCHANGED serve_frame

\* DELETE /v1/providers/{id}: the result is discarded.
MainDeregister ==
    /\ pc_main = "deregister"
    /\ \E answered \in BOOLEAN :
         shutdown_log' = Append(shutdown_log,
              LogEntry(IF answered THEN "deregister" ELSE "deregister_failed", "main", None))
    /\ pc_main' = "abort"
    /\ UNCHANGED <<presence_state, sent, creds, exlog, refresh_lock, msend, token, llama,
                   pc_pub, psend, pc_hb, hb_count, pc_mon>>
    /\ UNCHANGED serve_frame

\* The abort of the tasks with the health monitor left running.
MainAbortTasksSparingMonitor ==
    /\ pc_main = "abort"
    /\ pc_hb' = "aborted"
    /\ pc_pub' = "aborted"
    /\ psend' = NoSend
    /\ refresh_lock' = None
    /\ llama' = drop_llama(llama)
    /\ shutdown_log' =
         Append(shutdown_log, LogEntry("abort", "main", None))
           \o (IF llama.child # "none" THEN <<LogEntry("kill", "drop", None)>> ELSE <<>>)
    /\ mon_at_abort' = pc_mon
    /\ pc_main' = "done"
    /\ UNCHANGED <<presence_state, sent, creds, exlog, msend, token, hb_count, pc_mon>>
    /\ UNCHANGED abort_frame

\* heartbeat_handle.abort(), monitor_handle.abort(), presence_handle.abort() and
\* the return.  The monitor's future is dropped and with it llama, whose Drop
\* kills a child that is held; a refresh guard held by the heartbeat is dropped.
MainAbortTasks ==
    /\ pc_main = "abort"
    /\ pc_hb' = "aborted"
    /\ pc_mon' = "aborted"
    /\ pc_pub' = "aborted"
    /\ psend' = NoSend
    /\ refresh_lock' = None
    /\ llama' = drop_llama(llama)
    /\ shutdown_log' =
         Append(shutdown_log, LogEntry("abort", "main", None))
           \o (IF llama.child # "none" THEN <<LogEntry("kill", "drop", None)>> ELSE <<>>)
    /\ mon_at_abort' = pc_mon
    /\ pc_main' = "done"
    /\ UNCHANGED <<presence_state, sent, creds, exlog, msend, token, hb_count>>
    /\ UNCHANGED abort_frame

\* The clock of the serve run.
ServeClockTick ==
    /\ now < MaxTicks * ClockStep
    /\ pc_main \notin {"done", "failed"}
    /\ now' = now + ClockStep
    /\ UNCHANGED <<pvars, svars, lvars, kvars, qvars, creds, refresh_lock, cpc, cret, exlog, overlapped,
                   in_window>>

\* run_serve itself, from its first line to its return.
NextMain ==
    \/ MainAuthOk
    \/ MainAuthFails
    \/ MainResolveOk
    \/ MainResolveFails
    \/ MainSendSnapshot
    \/ MainSendWire
    \/ MainSpawnPresenceLoop
    \/ MainSetLoading
    \/ \E outcome \in StartOutcomes : MainStart(outcome)
    \/ \E outcome \in RegisterOutcomes : MainRegister(outcome)
    \/ MainBail
    \/ MainSpawnLoops
    \/ MainCtrlC
    \/ MainSetUnavailable
    \/ MainDeregister
    \/ MainAbortTasks

\* The tasks that read or write the presence state: the presence loop and the
\* health monitor, with the child process they watch.
NextPresenceTasks ==
    \/ ChildExits
    \/ PubTick
    \/ PubWire
    \/ MonitorTick
    \/ MonitorDegrade
    \/ \E outcome \in StartOutcomes : MonitorRestart(outcome)
    \/ \E active \in 0..MaxSlots : MonitorQueryOk(active)
    \/ MonitorQueryFails

\* The heartbeat task, which shares only the token cell and the stored
\* credentials with the rest.
NextHeartbeat ==
    \/ HeartbeatTick
    \/ HeartbeatLoad
    \/ HeartbeatExchangeFails
    \/ \E expires_in \in ExpiresInValues : HeartbeatExchangeSucceeds(expires_in)
    \/ \E result \in PingResults : HeartbeatPing(result)
    \/ ServeClockTick

\* run_serve with the presence loop and the health monitor.  The heartbeat task
\* touches neither the presence state nor the child, so its steps are followed
\* in SpecHeartbeat instead and it rests here.
NextServe == NextMain \/ NextPresenceTasks

\* run_serve with the heartbeat task; the presence loop and the health monitor rest.
NextServeHeartbeat == NextMain \/ NextHeartbeat

\* run_serve when the model is about something else.
ParkedServe ==
    /\ pc_main = "auth"
    /\ msend = NoSend
    /\ token = 0
    /\ llama = NewLlamaServer
    /\ pc_pub = "unspawned"
    /\ psend = NoSend
    /\ pc_hb = "unspawned"
    /\ hb_count = 0
    /\ pc_mon = "unspawned"
    /\ shutdown_log = <<>>
    /\ mon_at_abort = "unspawned"
    /\ hb_last = NoBeat(0)
    /\ mon_query = "none"

\* The callers of load_valid_credentials when the model is about something else.
ParkedAuth ==
    /\ creds = Some(Credentials(0, 0, 3600))
    /\ now = 0
    /\ refresh_lock = None
    /\ cpc = [c \in Callers |-> "idle"]
    /\ cret = [c \in Callers |-> None]
    /\ exlog = <<>>
    /\ overlapped = TRUE
    /\ in_window = TRUE

\* A PresenceHandle right after new(), with nothing else going on.
InitSpecPresence == InitPresence /\ ParkedAuth /\ ParkedServe /\ InitSupervisor /\ InitTasks /\ InitProbe

SpecPresence == InitSpecPresence /\ [][NextPresence]_vars

\* The tasks about to call load_valid_credentials, with presence left at rest.
InitSpecAuth == InitAuth /\ InitPresence /\ ParkedServe /\ InitSupervisor /\ InitTasks /\ InitProbe

SpecAuth == InitSpecAuth /\ [][NextAuth]_vars

\* run_serve from its first line; no PresenceHandle call, no other caller of
\* load_valid_credentials.
InitSpecServe == InitServe /\ InitAuth /\ InitPresence /\ InitSupervisor /\ InitTasks /\ InitProbe

SpecServe == InitSpecServe /\ [][NextServe]_vars

SpecHeartbeat == InitSpecServe /\ [][NextServeHeartbeat]_vars

\* One iteration step of the health monitor, whatever its calls return.
MonitorLoop ==
    \/ MonitorTick
    \/ MonitorDegrade
    \/ \E outcome \in StartOutcomes : MonitorRestart(outcome)
    \/ \E active \in 0..MaxSlots : MonitorQueryOk(active)
    \/ MonitorQueryFails

\* run_serve with the health monitor and the child it watches; the presence
\* loop and the heartbeat task rest.
NextServeMonitor == NextMain \/ ChildExits \/ MonitorLoop

SpecServeMonitor == InitSpecServe /\ [][NextServeMonitor]_vars

\* run_serve scheduled: the runtime keeps polling run_serve and the monitor
\* task, their requests and sleeps return, and a start that is tried again and
\* again succeeds at some point.  Nothing makes Ctrl-C arrive or the child exit.
SpecServeLive ==
    /\ InitSpecServe
    /\ [][NextServeMonitor]_vars
    /\ WF_vars(pc_main # "wait" /\ NextMain)
    /\ WF_vars(MonitorLoop)
    /\ SF_vars(MonitorRestart("ok"))

\* One LlamaServer right after new(), called from outside run_serve.
InitSpecSupervisor == InitSupervisor /\ ParkedServe /\ ParkedAuth /\ InitPresence /\ InitTasks /\ InitProbe

SpecSupervisor == InitSpecSupervisor /\ [][NextSupervisor]_vars

\* Tasks sharing a PresenceHandle right after new().
InitSpecTasks == InitTasks /\ InitPresence /\ ParkedAuth /\ ParkedServe /\ InitSupervisor /\ InitProbe

SpecTasks == InitSpecTasks /\ [][NextTasks]_vars

\* The tasks of run_serve on the token cell and the presence state.
SpecLocks == InitSpecTasks /\ [][NextLocks]_vars

\* The probes, on every outcome of building the client and of the request.
InitSpecProbe == InitProbe /\ InitPresence /\ ParkedAuth /\ ParkedServe /\ InitSupervisor /\ InitTasks

SpecProbe == InitSpecProbe /\ [][NextProbe]_vars

\* wait_for_healthy under every run of probe results; the loop is a task that
\* is scheduled, so its steps are taken.
SpecWait == InitSpecProbe /\ [][NextWait]_vars /\ WF_vars(WaitLoop)

\* ------------------------------------------------- claims on PresenceHandle

\* C1: a transition whose (current status, target) pair is not in the
\* transition table returns InvalidTransition and leaves every field of the
\* presence state as it was.
C1_InvalidTransitionRejected ==
    (last.op = "transition" /\ <<last.pre.status, last.target>> \notin TransitionTable)
        => (last.result = "InvalidTransition" /\ presence_state = last.pre)

\* A refused transition out of Error towards Ready, with error fields to keep.
C1_Witness ==
    /\ last.op = "transition"
    /\ last.pre.status = "Error"
    /\ last.target = "Ready"
    /\ last.pre.error_code # None
    /\ last.result = "InvalidTransition"

\* C2: a transition whose pair is in the table succeeds, sets the status to the
\* target and clears loading_progress_pct, error_code and error_message.
C2_ValidTransitionApplied ==
    (last.op = "transition" /\ <<last.pre.status, last.target>> \in TransitionTable)
        => /\ last.result = "Ok"
           /\ presence_state.status = last.target
           /\ presence_state.loading_progress_pct = None
           /\ presence_state.error_code = None
           /\ presence_state.error_message = None

\* An allowed transition out of Error, whose error fields had to be cleared.
C2_Witness ==
    /\ last.op = "transition"
    /\ last.pre.status = "Error"
    /\ last.pre.error_code # None
    /\ last.target = "LoadingModel"
    /\ last.result = "Ok"
    /\ presence_state.status = "LoadingModel"

\* C3: update_active_requests(n), for any n, called while the status is
\* Degraded or Error leaves the status unchanged.
C3_DegradedErrorUntouched ==
    (last.op = "update_active_requests" /\ last.pre.status \in {"Degraded", "Error"})
        => presence_state.status = last.pre.status

\* C4: report_error succeeds from every status: afterwards the status is Error,
\* the error fields hold the given values and active_requests is what it was.
C4_ReportErrorBypasses ==
    last.op = "report_error"
        => /\ last.result = "Ok"
           /\ presence_state.status = "Error"
           /\ presence_state.error_code = last.code
           /\ presence_state.error_message = last.message
           /\ presence_state.active_requests = last.pre.active_requests

\* report_error from Unavailable (no table entry to Error) with requests counted.
C4_Witness ==
    /\ last.op = "report_error"
    /\ last.pre.status = "Unavailable"
    /\ last.pre.active_requests > 0
    /\ presence_state.status = "Error"

\* C5: report_degraded succeeds from every status: afterwards the status is
\* Degraded, active_requests is 0 and the error fields hold the given values.
C5_ReportDegradedBypasses ==
    last.op = "report_degraded"
        => /\ last.result = "Ok"
           /\ presence_state.status = "Degraded"
           /\ presence_state.active_requests = 0
           /\ presence_state.error_code = last.code
           /\ presence_state.error_message = last.message

\* report_degraded from Error (no table entry to Degraded) with requests counted.
C5_Witness ==
    /\ last.op = "report_degraded"
    /\ last.pre.status = "Error"
    /\ last.pre.active_requests > 0
    /\ presence_state.status = "Degraded"

\* C6: update_active_requests(n) sets active_requests to n; n > 0 gives Serving;
\* n = 0 from Ready, Serving, Idle or LoadingModel gives Ready.
C6_UpdateActiveRequests ==
    last.op = "update_active_requests"
        => /\ presence_state.active_requests = last.n
           /\ (last.n > 0 => presence_state.status = "Serving")
           /\ (last.n = 0 /\ last.pre.status \in {"Ready", "Serving", "Idle", "LoadingModel"}
                  => presence_state.status = "Ready")

\* A count of 0 reported while Serving, after a count above 0 made it Serving.
C6_Witness ==
    /\ last.op = "update_active_requests"
    /\ last.n = 0
    /\ last.pre.status = "Serving"
    /\ last.pre.active_requests = MaxActive
    /\ presence_state.status = "Ready"

\* ------------------------------------------- claims on the token refresh

\* Every caller has returned from calls that overlapped and that were all
\* issued while the stored token was within the refresh window.
ConcurrentRefreshDone ==
    /\ \A c \in Callers : cpc[c] \in {"ok", "err"}
    /\ overlapped
    /\ in_window

\* Exactly one exchange went out and every caller returned its token.
OneExchangeForAll ==
    /\ Len(exlog) = 1
    /\ \A c \in Callers :
          /\ cpc[c] = "ok"
          /\ \E r \in cret[c] : r.access_token = exlog[1].token

C18_BackoffDoublesToCeiling ==
    /\ llama.restart_backoff =
           Min(INITIAL_RESTART_BACKOFF * 2^failed_restarts, MAX_RESTART_BACKOFF)
    /\ (sup_last.op \in {"start", "restart_with_backoff"} /\ sup_last.outcome = "ok")
           => llama.restart_backoff = INITIAL_RESTART_BACKOFF

\* Enough failed restarts to sit at the ceiling, then one successful start().
C18_Witness ==
    /\ sup_last.op = "start"
    /\ sup_last.outcome = "ok"
    /\ sup_last.pre.restart_backoff = MAX_RESTART_BACKOFF
    /\ llama.restart_backoff = INITIAL_RESTART_BACKOFF

\* C19: a start() whose process never reports healthy returns an error, leaves
\* the backoff at its value before the call and leaves the spawned process
\* running with its handle held.
C19_HealthTimeoutKeepsBackoffAndChild ==
    (sup_last.op = "start" /\ sup_last.outcome = "health_timeout")
        => /\ sup_last.result = "Err"
           /\ llama.restart_backoff = sup_last.pre.restart_backoff
           /\ llama.child = "running"
           /\ is_running(llama)

\* A start() that timed out on a LlamaServer whose backoff had been doubled.
C19_Witness ==
    /\ sup_last.op = "start"
    /\ sup_last.outcome = "health_timeout"
    /\ sup_last.pre.restart_backoff > INITIAL_RESTART_BACKOFF
    /\ sup_last.pre.child = "none"

\* C21: stop() on a running process first asks it to terminate, kills it only
\* when the grace period ended without an exit, and in each case (clean exit,
\* wait error, forced kill) returns with no handle held.
C21_StopTermThenKillOnTimeout ==
    (sup_last.op = "stop" /\ sup_last.pre.child = "running")
        => /\ Len(signals) >= 1 /\ signals[1] = "SIGTERM"
           /\ sup_last.outcome = "grace_elapsed" => signals = <<"SIGTERM", "SIGKILL">>
           /\ sup_last.outcome \in {"exited", "wait_error"} => signals = <<"SIGTERM">>
           /\ llama.child = "none"
           /\ sup_last.result = "Ok"

\* A stop() that had to kill the process.
C21_Witness ==
    /\ sup_last.op = "stop"
    /\ sup_last.pre.child = "running"
    /\ sup_last.outcome = "grace_elapsed"
    /\ signals = <<"SIGTERM", "SIGKILL">>

\* C22: stop() with no process held returns Ok and changes nothing; so a
\* stop() right after a stop() is a no-op.
C22_StopIdempotent ==
    /\ (sup_last.op = "stop" /\ sup_last.pre.child = "none")
           => /\ llama = sup_last.pre
              /\ signals = <<>>
              /\ sup_last.result = "Ok"
    /\ (sup_last.op = "stop" /\ sup_prev = "stop") => sup_last.pre.child = "none"

\* Two stop() calls in a row on a LlamaServer whose backoff had been doubled.
C22_Witness ==
    /\ sup_last.op = "stop"
    /\ sup_prev = "stop"
    /\ sup_last.pre.restart_backoff > INITIAL_RESTART_BACKOFF
    /\ llama = sup_last.pre

\* C20: after any sequence of start, stop, is_running and restart_with_backoff
\* calls, at most one process spawned by the LlamaServer is alive.
C20_AtMostOneLiveProcess == LiveProcesses <= 1

\* ------------------------------------------------- claims on the shutdown

IsPublishOf(entry, statuses) ==
    /\ entry.kind = "publish"
    /\ \E snapshot \in entry.snapshot : snapshot.status \in statuses

UnavailablePublishes ==
    {i \in DOMAIN shutdown_log : IsPublishOf(shutdown_log[i], {"Unavailable"})}

Deregistrations ==
    {i \in DOMAIN shutdown_log : shutdown_log[i].kind \in {"deregister", "deregister_failed"}}

\* C7: the shutdown yields exactly one published Unavailable snapshot, with
\* active_requests = 0 and no error code or message, followed by exactly one
\* deregistration attempt, whether or not that attempt succeeds.  (run_serve
\* holds Ready only with a count of 0, so the formula speaks of every state the
\* run can be in when Ctrl-C arrives.)
C7_OneUnavailableThenDeregister ==
    pc_main = "done"
        => /\ Cardinality(UnavailablePublishes) = 1
           /\ \A i \in UnavailablePublishes : \A snapshot \in shutdown_log[i].snapshot :
                 /\ snapshot.active_requests = 0
                 /\ snapshot.error_code = None
                 /\ snapshot.error_message = None
           /\ Cardinality(Deregistrations) = 1
           /\ \A i \in UnavailablePublishes, j \in Deregistrations : i < j

\* The place of a shutdown step in the order the claim gives: cancellation of
\* the loops, stop of the subprocess, the Unavailable publish, deregistration.
ShutdownRank(entry) ==
    CASE entry.kind = "abort" -> 1
      [] entry.kind = "kill" -> 2
      [] entry.kind = "publish" /\ entry.by = "main" -> 3
      [] entry.kind \in {"deregister", "deregister_failed"} -> 4
      [] OTHER -> 0

\* C8: on shutdown the loops are cancelled first, then the subprocess is
\* stopped, then Unavailable is published, then deregistration is attempted.
C8_ShutdownOrder ==
    pc_main = "done"
        => \A i, j \in DOMAIN shutdown_log :
              (/\ ShutdownRank(shutdown_log[i]) > 0
               /\ ShutdownRank(shutdown_log[i]) < ShutdownRank(shutdown_log[j]))
                  => i < j

\* C9: once shutdown has set presence to Unavailable no loop changes the status
\* away from it, and no snapshot with another status is published after an
\* Unavailable one.
C9_UnavailableIsFinal ==
    pc_main \in {"send_unavailable", "deregister", "abort", "done"}
        => /\ presence_state.status = "Unavailable"
           /\ \A i \in UnavailablePublishes, j \in DOMAIN shutdown_log :
                 (i < j /\ shutdown_log[j].kind = "publish")
                     => IsPublishOf(shutdown_log[j], {"Unavailable"})

\* C13: once the shutdown signal has arrived the shutdown sequence runs to its
\* end and run_serve returns, whatever the publish and the deregistration
\* answer and whatever the loops are doing.
C13_ShutdownCompletes == (pc_main = "set_unavailable") ~> (pc_main = "done")

\* run_serve returned after a deregistration that failed, with the monitor
\* stopped in the middle of an iteration.
C13_Witness ==
    /\ pc_main = "done"
    /\ \E i \in DOMAIN shutdown_log : shutdown_log[i].kind = "deregister_failed"
    /\ mon_at_abort \in {"degrade", "restart", "query"}

\* C23: whenever the LlamaServer is discarded while it holds a process (each
\* early return of run_serve after the start attempt, and the teardown of the
\* monitor task at shutdown) the process is killed: none that the agent
\* started is running once run_serve has returned.
C23_NoProcessOutlivesRun ==
    pc_main \in {"done", "failed"} => (llama.child = "none" /\ LiveProcesses = 0)

\* run_serve returned early, from a failed registration, after a start that succeeded.
C23_Witness ==
    /\ pc_main = "failed"
    /\ presence_state.error_code = Some("provider_register_failed")
    /\ llama.child = "none"
    /\ pc_pub = "aborted"

\* ------------------------------------------- claims on startup and the monitor

\* C14: a failure of any startup step makes run_serve report presence Error
\* before it returns the failure.
C14_StartupFailureReportsError ==
    pc_main = "failed" => presence_state.status = "Error"

\* The positions of run_serve after a registration response that parsed.
AfterRegistration ==
    {"send_ready", "spawn_loops", "wait", "set_unavailable", "send_unavailable",
     "deregister", "abort", "done"}

\* C15: presence is Ready only after start() succeeded and the registration
\* returned a success response that parsed; the heartbeat and monitor tasks are
\* spawned only after that Ready was set and published; a run whose start or
\* registration failed has sent no heartbeat.
C15_ReadyAfterRegistration ==
    /\ presence_state.status = "Ready"
           => /\ pc_main \in AfterRegistration
              /\ pc_main \in {"send_ready", "spawn_loops"} => llama.child # "none"
    /\ (pc_hb # "unspawned" \/ pc_mon # "unspawned")
           => pc_main \in AfterRegistration \ {"send_ready", "spawn_loops"}
    /\ pc_main \in {"send_start_error", "send_register_error", "bail", "failed"}
           => hb_count = 0 /\ pc_hb = "unspawned"

\* Ready, the loops spawned, a heartbeat under way.
C15_Witness ==
    /\ presence_state.status = "Ready"
    /\ pc_main = "wait"
    /\ hb_count > 0
    /\ pc_hb = "ping"

\* C16: on a monitor tick that finds the subprocess not running, Degraded is set
\* before the restart is attempted; a failed restart sets Error and ends the
\* tick; a successful one sets Ready.
C16_DegradedThenRestart ==
    [][/\ (pc_mon = "sleep" /\ pc_mon' = "degrade") => ~is_running(llama)
       /\ (pc_mon = "degrade" /\ pc_mon' = "restart")
              => presence_state'.status = "Degraded" /\ llama' = llama
       /\ pc_mon' = "restart" => pc_mon \in {"degrade", "restart"}
       /\ (pc_mon = "restart" /\ pc_mon' # "restart")
              => \/ pc_mon' = "aborted"
                 \/ /\ pc_mon' = "sleep"
                    /\ IF is_running(llama') /\ llama'.restart_backoff = INITIAL_RESTART_BACKOFF
                       THEN presence_state'.status = "Ready"
                       ELSE /\ presence_state'.status = "Error"
                            /\ presence_state'.error_code = Some("llama_restart_failed")]_vars

\* The monitor back at its interval after a restart that failed.
C16_Witness ==
    /\ pc_mon = "sleep"
    /\ pc_main = "wait"
    /\ presence_state.status = "Error"
    /\ presence_state.error_code = Some("llama_restart_failed")
    /\ llama.restart_backoff > INITIAL_RESTART_BACKOFF

\* C17: an unexpected exit of the subprocess is recoverable: the monitor keeps
\* running after a failed restart and tries again, so that, a start being able
\* to succeed, presence leaves Degraded and Error for Ready (or Serving) again.
C17_RestartRetriedUntilReady ==
    (presence_state.status \in {"Degraded", "Error"} /\ pc_mon \notin {"unspawned", "aborted"})
        ~> (presence_state.status \in {"Ready", "Serving"} \/ ShuttingDown)

\* ------------------------------------------- claims on the loops at shutdown

\* The health monitor is inside an iteration: in, or between, its calls of
\* is_running, active_requests and restart_with_backoff.
MonitorActing == pc_mon \in {"degrade", "restart", "query"}

SubprocessKilled == \E i \in DOMAIN shutdown_log : shutdown_log[i].kind = "kill"

C12_NoNewIterationNoInterruption ==
    [][/\ ShuttingDown => /\ ~(pc_pub = "sleep" /\ pc_pub' = "wire")
                          /\ ~(pc_mon = "sleep" /\ pc_mon' \in {"query", "degrade"})
       /\ pc_pub = "wire" => pc_pub' # "aborted"
       /\ pc_mon = "query" => pc_mon' # "aborted"]_vars

\* ------------------------------------------- claims on the presence lock

\* C24: publish() and every mutating call have released the presence-state lock
\* before the request is sent: no task holds the lock while its own presence
\* request is in flight.
C24_LockReleasedBeforeSend ==
    \A t \in Tasks : tpc[t].at \in {"token", "snapshot", "wire"} => state_lock # Some(t)

\* A request in flight while the other task is inside its locked block.
C24_Witness ==
    \E t, u \in Tasks :
        /\ tpc[t].at = "wire"
        /\ tpc[t].op = "update_active_requests"
        /\ tpc[u].at = "mutate"
        /\ state_lock = Some(u)

\* ------------------------------------------- claims on the heartbeat task

\* C25: a failure inside a heartbeat iteration does not end the loop. After a
\* failed refresh the ping of that iteration is still to be sent or was sent;
\* after a ping that met a transport error or a non-success status the task is
\* back at its interval and the next iteration can start.
C25_HeartbeatSurvivesFailures ==
    /\ hb_last.refresh \in {"failed", "no_credentials"}
           => \/ hb_last.ping = "pending" /\ pc_hb \in {"ping", "aborted"}
              \/ hb_last.ping # "pending" /\ hb_last.sent_token # None
    /\ hb_last.ping \in {"non_success", "transport_error"}
           => /\ pc_hb \in {"sleep", "aborted"}
              /\ pc_hb = "sleep" /\ hb_count < MaxBeats => ENABLED HeartbeatTick

\* The refresh failed, the ping failed too, and the task waits for its next tick.
C25_Witness ==
    /\ hb_last.refresh = "failed"
    /\ hb_last.ping = "transport_error"
    /\ hb_last.sent_token # None
    /\ pc_hb = "sleep"
    /\ hb_count < MaxBeats

\* C29: within one heartbeat iteration the refresh completes before the ping is
\* sent, and the ping carries the token cell's value after the refresh: the
\* token the refresh returned when it succeeded, the cell's earlier value when
\* it failed.
C29_PingCarriesTokenAfterRefresh ==
    /\ pc_hb \in {"refresh", "exchange"} => hb_last.ping = "pending"
    /\ hb_last.ping # "pending"
           => /\ hb_last.refresh # "pending"
              /\ hb_last.sent_token =
                     IF hb_last.refresh \in {"valid", "refreshed"}
                     THEN hb_last.refreshed_to
                     ELSE Some(hb_last.token_before)

\* A refresh that changed the token, and the ping sent with the new one.
C29_Witness ==
    /\ hb_last.refresh = "refreshed"
    /\ hb_last.ping = "ok"
    /\ hb_last.sent_token # Some(hb_last.token_before)
    /\ hb_last.sent_token = Some(token)

\* ------------------------------------------- claims on a failed publish

\* The state a call leaves behind when it was not refused.
StateAfter(call) ==
    CASE call.op = "transition" -> TransitionApply(call.pre, call.target)
      [] call.op = "report_error" ->
             [call.pre EXCEPT !.status = "Error", !.error_code = call.code,
                              !.error_message = call.message]
      [] call.op = "report_degraded" ->
             [call.pre EXCEPT !.status = "Degraded", !.active_requests = 0,
                              !.error_code = call.code, !.error_message = call.message]
      [] call.op = "update_active_requests" -> UpdateActiveRequestsApply(call.pre, call.n)
      [] OTHER -> call.pre

\* The call changed the state: every call but a transition the table refuses.
Applied(call) ==
    /\ call.op \in {"transition", "report_error", "report_degraded", "update_active_requests"}
    /\ call.op = "transition" => can_transition_to(call.pre.status, call.target)

\* C26: a publish that fails inside transition, report_error, report_degraded or
\* update_active_requests is not propagated: the state change of the call is
\* kept and the call returns success.
C26_FailedPublishNotPropagated ==
    Applied(last) /\ ~last.delivered
        => /\ last.result = "Ok"
           /\ presence_state = StateAfter(last)
           /\ sent = Some(presence_state)

\* A transition out of Idle whose publish failed.
C26_Witness ==
    /\ last.op = "transition"
    /\ Applied(last)
    /\ ~last.delivered
    /\ last.pre.status # presence_state.status
    /\ last.result = "Ok"

\* ------------------------------------------- claims on the probes

\* C27: health_check reports a boolean and never fails its caller: a transport
\* error or a timeout yields false, never true and never an error, and only a
\* success status yields true.
C27_HealthCheckNeverFails ==
    probe.op = "health_check"
        => /\ probe.ok
           /\ probe.reply.kind \in {"connect_error", "timeout"} => ~probe.healthy
           /\ probe.healthy => probe.reply.kind = "response" /\ is_success(probe.reply.status)

\* The count the claim gives for a list: the entries for which is_processing is
\* the boolean true, or an integer above zero, or state is one of the three words.
ClaimedActive(items) ==
    Cardinality({i \in DOMAIN items :
        \/ items[i].is_processing = [kind |-> "bool", v |-> 1]
        \/ items[i].is_processing.kind \in {"int", "int_over_i64"} /\ items[i].is_processing.v > 0
        \/ items[i].state \in {"processing", "running", "active"}})

\* C28: active_requests returns the count of the slot entries, from a bare list
\* or from the list under "slots", for which one of the three encodings holds;
\* 0 and no error when the response has neither shape; an error only on a
\* transport failure or a non-success status.
C28_ActiveRequestsCountsSlots ==
    probe.op = "active_requests"
        => LET reply == probe.reply
               transport == reply.kind # "response" \/ reply.body.shape = "read_error"
               answered == reply.kind = "response" /\ is_success(reply.status)
           IN  /\ ~probe.ok => transport \/ ~is_success(reply.status)
               /\ answered /\ reply.body.shape \in {"array", "object_slots"}
                      => probe.ok /\ probe.active = ClaimedActive(reply.body.items)
               /\ answered /\ reply.body.shape \notin {"array", "object_slots", "read_error"}
                      => probe.ok /\ probe.active = 0

\* ------------------------------------------- claims on the monitor's query

\* C30: on a monitor tick that found the subprocess running and whose
\* active-request query fails, the presence snapshot is left as it was, nothing
\* is published for the failure, and the monitor is back at its interval with
\* the next tick enabled.
C30_FailedQueryLeavesPresence ==
    /\ [][mon_query # "failed" /\ mon_query' = "failed"
             => /\ pc_mon = "query"
                /\ pc_mon' = "sleep"
                /\ UNCHANGED <<presence_state, sent, msend, psend, shutdown_log>>]_vars
    /\ [](mon_query = "failed" /\ pc_mon = "sleep" => ENABLED MonitorTick)

\* A query failed while the snapshot said Serving with a request counted: both kept.
C30_Witness ==
    /\ mon_query = "failed"
    /\ pc_mon = "sleep"
    /\ presence_state.status = "Serving"
    /\ presence_state.active_requests > 0

\* ------------------------------------------- claims on start()

\* C31: when the executable cannot be launched, start() fails with the spawn
\* failure, the handle held is the one held before the call and the restart
\* backoff is the one before the call.
C31_SpawnFailureKeepsState ==
    sup_last.op = "start" /\ sup_last.outcome = "spawn_failed"
        => /\ sup_last.result = "Err"
           /\ llama.child = sup_last.pre.child
           /\ llama.restart_backoff = sup_last.pre.restart_backoff

\* A spawn failure met with a process held and the backoff above its initial value.
C31_Witness ==
    /\ sup_last.op = "start"
    /\ sup_last.outcome = "spawn_failed"
    /\ sup_last.pre.child = "running"
    /\ llama.child = "running"
    /\ llama.restart_backoff > INITIAL_RESTART_BACKOFF

\* C32: start() always returns: success only after a health probe reported
\* healthy, otherwise HealthTimeout once the startup timeout has elapsed, even
\* when every probe fails or times out.
C32_StartReturnsOkOrTimeout ==
    wfh.pc = "done"
        => \/ wfh.result = "Ok" /\ wfh.healthy
           \/ wfh.result = "HealthTimeout" /\ wfh.elapsed > HEALTH_STARTUP_TIMEOUT

\* ------------------------------------------- claims on the backoff

\* C39: after any sequence of start, stop and restart_with_backoff calls the
\* restart backoff lies between the initial value and the ceiling, and the
\* delay a restart slept is the backoff held before that restart doubled it.
C39_BackoffInRangeDelayBeforeDoubling ==
    /\ llama.restart_backoff >= INITIAL_RESTART_BACKOFF
    /\ llama.restart_backoff <= MAX_RESTART_BACKOFF
    /\ sup_last.op = "restart_with_backoff"
           => /\ slept = sup_last.pre.restart_backoff
              /\ sup_last.outcome # "ok"
                     => llama.restart_backoff = Min(slept * 2, MAX_RESTART_BACKOFF)

\* A failed restart that slept 32 s and left the backoff at the ceiling.
C39_Witness ==
    /\ sup_last.op = "restart_with_backoff"
    /\ sup_last.outcome = "health_timeout"
    /\ slept = 32
    /\ llama.restart_backoff = MAX_RESTART_BACKOFF

\* ------------------------------------------- claims on what a call leaves alone

\* C37: a successful transition changes only status, loading_progress_pct,
\* error_code and error_message: active_requests and current_model keep their
\* values, and no presence operation changes current_model after construction.
C37_TransitionFrame ==
    /\ last.op = "transition" /\ last.result = "Ok"
           => /\ presence_state.active_requests = last.pre.active_requests
              /\ presence_state.current_model = last.pre.current_model
              /\ presence_state = [last.pre EXCEPT !.status = presence_state.status,
                                       !.loading_progress_pct = presence_state.loading_progress_pct,
                                       !.error_code = presence_state.error_code,
                                       !.error_message = presence_state.error_message]
    /\ presence_state.current_model = Some(ModelName)
    /\ last.pre.current_model = Some(ModelName)

\* A transition out of Serving with a request counted: the count is kept.
C37_Witness ==
    /\ last.op = "transition"
    /\ last.result = "Ok"
    /\ last.pre.status = "Serving"
    /\ last.pre.active_requests > 0
    /\ presence_state.status # "Serving"
    /\ presence_state.active_requests = last.pre.active_requests

\* ------------------------------------------- claims on run_serve against PresenceHandle

\* PresenceHandle::transition as a function of the state: a refused call
\* leaves the state as it is.
TransitionOp(s, status) ==
    IF can_transition_to(s.status, status) THEN TransitionApply(s, status) ELSE s

\* C33: every presence change run_serve makes during startup, monitoring and
\* shutdown gives the snapshot the corresponding PresenceHandle operation gives
\* on the same prior state: transition for LoadingModel, Ready and Unavailable,
\* report_error for the Error blocks, report_degraded for the Degraded block,
\* update_active_requests for the count.
C33_RunServeMatchesStateMachine ==
    [][/\ pc_main = "set_loading" /\ pc_main' = "send_loading"
           => presence_state' = TransitionOp(presence_state, "LoadingModel")
       /\ pc_main = "start" /\ pc_main' = "send_start_error"
           => presence_state' = ReportErrorApply(presence_state, "llama_start_failed", "error text")
       /\ pc_main = "register" /\ pc_main' = "send_ready"
           => presence_state' = TransitionOp(presence_state, "Ready")
       /\ pc_main = "register" /\ pc_main' = "send_register_error"
           => \E code \in RegisterOutcomes :
                  presence_state' = ReportErrorApply(presence_state, code, "error text")
       /\ pc_mon = "degrade" /\ pc_mon' = "restart"
           => presence_state' = ReportDegradedApply(presence_state, "llama_stopped",
                                    "llama-server process stopped unexpectedly")
       /\ pc_mon = "restart" /\ pc_mon' = "sleep"
           => presence_state' =
                  IF presence_state'.status = "Ready"
                  THEN TransitionOp(presence_state, "Ready")
                  ELSE ReportErrorApply(presence_state, "llama_restart_failed", "error text")
       /\ pc_mon = "query" /\ pc_mon' = "sleep" /\ mon_query' = "ok"
           => presence_state' =
                  UpdateActiveRequestsApply(presence_state, presence_state'.active_requests)
       /\ pc_main = "set_unavailable" /\ pc_main' = "send_unavailable"
           => presence_state' = TransitionOp(presence_state, "Unavailable")]_vars

\* C34: in every interleaving of startup, the monitor loop and shutdown, each
\* validated status change run_serve makes (Idle to LoadingModel, LoadingModel
\* to Ready, Ready after a successful restart, Unavailable at shutdown) is
\* allowed by the transition table for the status held when it is applied.
C34_StatusChangesAllowedByTable ==
    [][/\ pc_main = "set_loading" /\ pc_main' = "send_loading"
           => can_transition_to(presence_state.status, "LoadingModel")
       /\ pc_main = "register" /\ pc_main' = "send_ready"
           => can_transition_to(presence_state.status, "Ready")
       /\ pc_mon = "restart" /\ pc_mon' = "sleep" /\ presence_state'.status = "Ready"
           => can_transition_to(presence_state.status, "Ready")
       /\ pc_main = "set_unavailable" /\ pc_main' = "send_unavailable"
           => can_transition_to(presence_state.status, "Unavailable")]_vars

\* C36: in every reachable state of the agent, a Ready or Serving status comes
\* with no error code and no error message.
C36_ReadyServingCarryNoError ==
    presence_state.status \in {"Ready", "Serving"}
        => presence_state.error_code = None /\ presence_state.error_message = None

\* Shutdown is tearing the agent down: Unavailable has been sent, the
\* deregistration and the aborts are what is left.
TearingDown == pc_main \in {"deregister", "abort", "done"}

\* C35: once shutdown has begun tearing the agent down the health monitor never
\* starts the subprocess again: a monitor iteration that is under way does not
\* come out of restart_with_backoff with a subprocess spawned.
C35_NoStartDuringTeardown ==
    [][TearingDown /\ pc_mon = "restart" /\ pc_mon' # "restart"
           => llama'.child # "running"]_vars

\* ------------------------------------------- claims on a failed refresh

\* C40: when the refresh-token exchange fails, the stored credentials and the
\* shared token cell keep their values and the refresh lock is released, so
\* that a later caller can attempt the refresh again.
C40_FailedRefreshKeepsCredentials ==
    [][Len(exlog') > Len(exlog) /\ ~exlog'[Len(exlog')].ok
           => /\ creds' = creds
              /\ token' = token
              /\ refresh_lock' = None
              /\ LockAvailable(refresh_lock')]_vars

\* A heartbeat whose refresh failed, and the next heartbeat refreshing with success.
C40_Witness ==
    \E i, j \in DOMAIN exlog :
        /\ i < j
        /\ ~exlog[i].ok
        /\ exlog[j].ok
        /\ hb_last.refresh = "refreshed"
        /\ hb_count = 2

\* ------------------------------------------- claims on the two locks

\* C38: no task holds the token lock and the presence-state lock at the same
\* time, neither lock is held across a network call, and the tasks never
\* deadlock on the two locks: while a call is under way some task can step.
C38_LocksNeverNestedNorHeldOnWire ==
    /\ \A t \in Tasks : ~(state_lock = Some(t) /\ token_lock = Some(t))
    /\ \A t \in Tasks : tpc[t].at = "wire" => state_lock # Some(t) /\ token_lock # Some(t)
    /\ (\E t \in Tasks : tpc[t].at # "idle") => ENABLED TaskSteps

\* One task writes the token cell while the other is inside its locked block
\* on the presence state: both locks held, by different tasks.
C38_Witness ==
    \E t, u \in Tasks :
        /\ t # u
        /\ token_lock = Some(t)
        /\ tpc[t].at = "cell_write"
        /\ state_lock = Some(u)
        /\ tpc[u].at = "mutate"

====
